---- MODULE Spec2Model ----
(***************************************************************************)
(* TMDB data-access layer of the movie-rental storefront                   *)
(* (services/tmdbService.ts, optimized version): the request scheduler,    *)
(* the two-tier TTL cache and the basic page fetch.                        *)
(*                                                                         *)
(* JavaScript runs the module on one event loop: every action below is one *)
(* run-to-completion piece of a handler, from one suspension point (await  *)
(* of a network call or of a timer) to the next.                           *)
(***************************************************************************)
EXTENDS Integers, Sequences, FiniteSets, TLC

\* ------------------------------------------------------------------ bounds
\* queueRequest calls made in one behaviour
MaxUnits == 4

\* the clock stops here (hours)
MaxNow == 24
\* HTTP requests for listing pages issued in one behaviour
MaxRequests == 2
\* details requests queued in one behaviour
MaxCalls == 2
\* elements of a release-dates results list, and release dates of an element
MaxEntries == 2
MaxDates == 2
\* items handed to one batchFetch call
MaxItems == 12
\* entries of a search response
MaxResults == 2
\* fetchMovies calls made in one behaviour
MaxFetches == 4
\* pages of every listing the provider has
MaxPages == 2
\* movies in the cart; submitRentals calls in a run
MaxCart == 2
MaxSubmits == 2

Units == 1..MaxUnits

VARIABLES
  \* ---- request scheduler
  REQUEST_QUEUE,       \* sequence of queued units (closures), oldest first
  isProcessingQueue,   \* the module-level flag
  loops,               \* activations of processQueue that are past line 114:
                       \*   [unit |-> u, pc |-> "request" | "delay"]
  promise,             \* unit -> the promise queueRequest returned for it
  response,            \* unit -> how its requestFn ended: "none" | "ok" | "fail"
  callOrder,           \* units in the order queueRequest was called
  arrival,             \* unit -> what the loop was doing when it was enqueued:
                       \*   "none" (not called) | "idle" | "request" | "delay" |
                       \*   "lastDelay" (pacing delay, nothing else queued)
  started,             \* units in the order their requestFn was started
  \* ---- cache store
  memoryCache,         \* key -> CacheEntry or NoEntry (the in-process Map)
  localStorage,        \* key -> stored string (its parse) or NoItem
  storageAvailable,    \* FALSE: every localStorage call of this page throws
  now,                 \* Date.now(), in hours
  lastSaved,           \* key -> what saveToCache last stored in this session
  dropped,             \* keys whose unexpired entry the operation that ran
                       \*   last, a clearCache, removed
  lastCall,            \* the operation that ran last and what it returned
  \* ---- basic page fetch
  inflight,            \* key -> fetchMoviesBasic calls awaiting discoverMovies
  netRequests,         \* key -> HTTP requests issued for it so far
  afterClear,          \* the operation that ran last is a fetchMoviesBasic
                       \*   that directly followed a clearCache which removed
                       \*   an unexpired entry of its key
  \* ---- details fetch and enrichment
  catalog,             \* movie id -> the body the provider holds for
                       \*   /movie/{id}?append_to_response=release_dates
  calls,               \* unit -> the getMovieDetailsWithCertification call
                       \*   that queued it: [id, caller, movie]
  lastEnrich,          \* the enrichMovieWithDetails call that settled last
  enriched,            \* movie id -> result of its last successful enrichment
  unhandled,           \* promise rejections no handler was attached to
  \* ---- certification extraction
  certInput,           \* the argument extractUSCertification is called with
  certOutput,          \* [done, out]: whether it was called, how it ended
  \* ---- batchFetch (one call)
  items,               \* the items array: item k is its k-th element
  batchSize,           \* the batchSize argument
  batchIndex,          \* the loop variable i
  batchPc,             \* "idle" | "fetching" (awaiting Promise.all) |
                       \*   "delay" (awaiting BATCH_DELAY) | "done" | "rejected"
  fetches,             \* item -> its fetchFn: "none" | "running" | "ok" | "fail"
  resultMap,           \* the `results` Map: item -> result, for the items set
  launched,            \* the groups of items in the order they were started
  delays,              \* BATCH_DELAY timers the call has awaited
  \* ---- search
  searchResponse,      \* the body the provider answers /search/movie with
  timezoneWest,        \* the browser's time zone is behind UTC
  searchPc,            \* "idle" | "awaiting" (searchMovies) | "done"
  searchOut,           \* what the last searchMoviesBasic call ended with
  searchRequests,      \* HTTP requests issued for /search/movie so far
  \* ---- the movie store (useMovies)
  movies,              \* movies.value
  loading,             \* loading.value
  loadingMore,         \* loadingMore.value
  loadingDetails,      \* loadingDetails.value
  error,               \* error.value: a message, or NoError for null
  currentPage,         \* currentPage.value
  totalPages,          \* totalPages.value
  totalResults,        \* totalResults.value
  currentGenre,        \* currentGenre.value
  searchQuery,         \* searchQuery.value
  listFetches,         \* the fetchMovies calls awaiting their page, oldest
                       \*   first: [req, append]
  fetchCount,          \* fetchMovies calls made so far
  detailJobs,          \* the getMovieWithDetails calls awaiting
                       \*   enrichMovieWithDetails: [movie]
  detailCount,         \* getMovieWithDetails / onMovieHover calls that
                       \*   reached the service so far
  background,          \* the kinds of fire-and-forget service calls still
                       \*   running: "nextPage" (prefetchNextPage), "hover"
                       \*   (prefetchMovieDetails)
  uiRejections,        \* promise rejections that reached the UI
  storeCall,           \* the store operation that ran last
  \* ---- checkout (App.vue, useCart, useAuth, MemberLoginModal)
  cartItems,           \* cart.items.value.length
  supabaseConfigured,  \* isSupabaseConfigured()
  currentMember,       \* currentMember.value: a member id, or NoMember
  pendingCheckout,     \* pendingCheckout.value
  showLoginModal,      \* showLoginModal.value
  showCheckout,        \* showCheckout.value
  modalLoading,        \* the login modal's call in flight: "login",
                       \*   "signup", or "none" (loading.value false)
  newMemberCard,       \* the login modal shows the new member's card
  orphanLogins,        \* login/signup calls of login modals closed since
  submissions,         \* submit_rental RPCs in flight
  rpcCount,            \* submit_rental RPCs issued since the cart was
                       \*   last cleared by handleCheckoutDone
  submitCount,         \* submitRentals calls made so far
  submittedAs,         \* the memberId arguments of the submitRentals calls
  checkoutCall         \* the checkout operation that ran last

schedVars == <<REQUEST_QUEUE, isProcessingQueue, loops, promise, response,
               callOrder, arrival, started>>
cacheVars == <<memoryCache, localStorage, storageAvailable, now, lastSaved,
               dropped, lastCall>>
fetchVars == <<inflight, netRequests, afterClear>>
detailVars == <<catalog, calls, lastEnrich, enriched, unhandled>>
\* the state of the operations modelled after the basic page fetch
extractVars == <<certInput, certOutput>>
batchVars == <<items, batchSize, batchIndex, batchPc, fetches, resultMap,
               launched, delays>>
searchVars == <<searchResponse, timezoneWest, searchPc, searchOut,
                searchRequests>>
storeVars == <<movies, loading, loadingMore, loadingDetails, error,
               currentPage, totalPages, totalResults, currentGenre,
               searchQuery, listFetches, fetchCount, detailJobs, detailCount,
               background, uiRejections, storeCall>>
checkoutVars == <<cartItems, supabaseConfigured, currentMember,
                  pendingCheckout, showLoginModal, showCheckout,
                  modalLoading, newMemberCard, orphanLogins, submissions,
                  rpcCount, submitCount, submittedAs, checkoutCall>>
restVars == <<detailVars, extractVars, batchVars, searchVars, storeVars,
              checkoutVars>>
vars == <<REQUEST_QUEUE, isProcessingQueue, loops, promise, response,
          callOrder, arrival, started,
          memoryCache, localStorage, storageAvailable, now, lastSaved,
          dropped, lastCall,
          inflight, netRequests, afterClear,
          catalog, calls, lastEnrich, enriched, unhandled,
          certInput, certOutput,
          items, batchSize, batchIndex, batchPc, fetches, resultMap,
          launched, delays,
          searchResponse, timezoneWest, searchPc, searchOut, searchRequests,
          movies, loading, loadingMore, loadingDetails, error,
          currentPage, totalPages, totalResults, currentGenre,
          searchQuery, listFetches, fetchCount, detailJobs, detailCount,
          background, uiRejections, storeCall,
          cartItems, supabaseConfigured, currentMember, pendingCheckout,
          showLoginModal, showCheckout, modalLoading, newMemberCard,
          orphanLogins, submissions, rpcCount, submitCount, submittedAs,
          checkoutCall>>

\* ======================================================================
\* CACHE STORE
\* ======================================================================

\* 24 * 60 * 60 * 1000 ms; the model's clock counts hours
CACHE_TTL == 24
\* 'tmdb_cache_' and 'mega_video_member'; a string is modelled as the
\* sequence of its '_'-separated pieces, so that concatenation and
\* startsWith are computed, not assumed
CACHE_PREFIX == <<"tmdb", "cache">>
STORAGE_KEY == <<"mega", "video", "member">>

\* `${CACHE_PREFIX}${type}_${id}`
getCacheKey(type, id) == CACHE_PREFIX \o <<type>> \o id

\* String.prototype.startsWith
StartsWith(k, prefix) ==
  Len(k) >= Len(prefix) /\ SubSeq(k, 1, Len(prefix)) = prefix

\* fetchMoviesBasic's key: getCacheKey('discover_page',
\* `${page}_${genreId || 'all'}`); genreId 0 stands for undefined (both falsy)
PageKey(page, genreId) ==
  getCacheKey("discover_page",
              <<ToString(page), IF genreId = 0 THEN "all" ELSE ToString(genreId)>>)

\* the (page, genre) arguments in use: page 1, no genre or genre 28 (Action)
Pages == {1}
GenreIds == {0, 28}

\* the cache keys the model reads and writes
CacheKeys == {PageKey(p, g) : p \in Pages, g \in GenreIds}
StorageKeys == CacheKeys \cup {STORAGE_KEY}

\* data a session can store; "old" is what an earlier session left behind
Data == {"a", "b"}

NoEntry == [present |-> FALSE, data |-> "", timestamp |-> 0]
Entry(d, t) == [present |-> TRUE, data |-> d, timestamp |-> t]

\* What a localStorage slot holds, by what JSON.parse makes of it:
\*   "absent"       getItem returns null
\*   "json"         '{"data":..,"timestamp":..}'
\*   "garbage"      JSON.parse throws a SyntaxError
\*   "null"         the text 'null': parses, entry.timestamp throws a TypeError
\*   "noTimestamp"  '{"data":..}': parses, timestamp is undefined
\*   "member"       the member session stored under STORAGE_KEY
NoItem == [kind |-> "absent", data |-> "", timestamp |-> 0]
Garbage == [kind |-> "garbage", data |-> "", timestamp |-> 0]
NullText == [kind |-> "null", data |-> "", timestamp |-> 0]
NoTimestamp == [kind |-> "noTimestamp", data |-> "old", timestamp |-> 0]
MemberItem == [kind |-> "member", data |-> "member", timestamp |-> 0]
\* JSON.stringify(entry)
Stringify(e) == [kind |-> "json", data |-> e.data, timestamp |-> e.timestamp]
\* JSON.parse(cached) of a "json" or "noTimestamp" item
Parse(item) == Entry(item.data, item.timestamp)

Absent == [hit |-> FALSE, data |-> ""]
Hit(d) == [hit |-> TRUE, data |-> d]

\* Date.now() - timestamp < CACHE_TTL
IsFreshInclusive(timestamp, t) == t - timestamp <= CACHE_TTL
IsFresh(timestamp, t) == t - timestamp < CACHE_TTL

\* The body of getFromCache's try block (lines 55-65); `threw`: it raised.
TryReadStorageKeep(key, mem, ls, avail, t) ==
  LET cached == ls[key]
      same == [ret |-> Absent, mem |-> mem, ls |-> ls]
  IN IF ~avail THEN same @@ [threw |-> TRUE]
     ELSE IF cached.kind = "absent" THEN same @@ [threw |-> FALSE]
     ELSE IF cached.kind \in {"garbage", "null"} THEN same @@ [threw |-> TRUE]
     ELSE IF cached.kind = "json" /\ IsFresh(cached.timestamp, t)
       THEN [ret |-> Hit(cached.data),
             mem |-> [mem EXCEPT ![key] = Parse(cached)],
             ls |-> ls, threw |-> FALSE]
     ELSE same @@ [threw |-> FALSE]
TryReadStorage(key, mem, ls, avail, t) ==
  LET cached == ls[key]
      same == [ret |-> Absent, mem |-> mem, ls |-> ls]
  IN IF ~avail THEN same @@ [threw |-> TRUE]                  \* getItem throws
     ELSE IF cached.kind = "absent" THEN same @@ [threw |-> FALSE]
     ELSE IF cached.kind \in {"garbage", "null"}
       THEN same @@ [threw |-> TRUE]          \* JSON.parse / entry.timestamp
     ELSE IF cached.kind = "json" /\ IsFresh(cached.timestamp, t)
       THEN [ret |-> Hit(cached.data),
             mem |-> [mem EXCEPT ![key] = Parse(cached)],
             ls |-> ls, threw |-> FALSE]
     ELSE [ret |-> Absent, mem |-> mem,       \* expired, or NaN < TTL is false
           ls |-> [ls EXCEPT ![key] = NoItem], threw |-> FALSE]

\* try { ... } catch { } return null  (lines 54-69)
ReadStorageUncaught(key, mem, ls, avail, t) ==
  TryReadStorage(key, mem, ls, avail, t)
ReadStorage(key, mem, ls, avail, t) ==
  LET r == TryReadStorage(key, mem, ls, avail, t)
  IN IF r.threw
       THEN [ret |-> Absent, mem |-> mem, ls |-> ls, threw |-> FALSE]
       ELSE r

\* getFromCache(key): the memory tier first, then the persistent one
getFromCache(key, mem, ls, avail, t) ==
  IF mem[key].present /\ IsFresh(mem[key].timestamp, t)
    THEN [ret |-> Hit(mem[key].data), mem |-> mem, ls |-> ls, threw |-> FALSE]
    ELSE ReadStorage(key, mem, ls, avail, t)

\* saveToCache(key, data); `full`: setItem raises QuotaExceededError
saveToCacheStorageFirst(key, d, mem, ls, avail, full, t) ==
  IF avail /\ ~full
    THEN [mem |-> [mem EXCEPT ![key] = Entry(d, t)],
          ls |-> [ls EXCEPT ![key] = Stringify(Entry(d, t))], threw |-> FALSE]
    ELSE [mem |-> mem, ls |-> ls, threw |-> FALSE]
saveToCache(key, d, mem, ls, avail, full, t) ==
  [mem |-> [mem EXCEPT ![key] = Entry(d, t)],
   ls |-> IF avail /\ ~full
            THEN [ls EXCEPT ![key] = Stringify(Entry(d, t))]
            ELSE ls,
   threw |-> FALSE]

\* k => k.startsWith(CACHE_PREFIX), the filter of clearCache
IsLibraryKeyAny(k) == TRUE
IsLibraryKey(k) == StartsWith(k, CACHE_PREFIX)

\* clearCache()
clearCacheMemoryOnly(mem, ls, avail) ==
  [mem |-> [k \in DOMAIN mem |-> NoEntry], ls |-> ls]
clearCache(mem, ls, avail) ==
  [mem |-> [k \in DOMAIN mem |-> NoEntry],
   ls |-> IF avail
            THEN [k \in DOMAIN ls |-> IF IsLibraryKey(k) THEN NoItem ELSE ls[k]]
            ELSE ls]

Call(op, key, ret, threw) == [op |-> op, key |-> key, ret |-> ret, threw |-> threw]

\* what an earlier session may have left under a cache key
PriorItems ==
  {NoItem, Garbage, NullText, NoTimestamp,
   Stringify(Entry("old", 0 - CACHE_TTL)),
   Stringify(Entry("old", 0 - (CACHE_TTL \div 2)))}

\* the cache variables of a specification that does not use the cache
CacheUnused ==
  /\ memoryCache = [k \in CacheKeys |-> NoEntry]
  /\ localStorage = [k \in StorageKeys |-> NoItem]
  /\ storageAvailable = TRUE
  /\ now = 0
  /\ lastSaved = [k \in CacheKeys |-> NoEntry]
  /\ dropped = {}
  /\ lastCall = Call("load", <<>>, Absent, FALSE)

\* Module load: an empty Map; localStorage as earlier sessions left it, or
\* not usable at all in this page (then nothing of it is visible).
CacheInit ==
  /\ memoryCache = [k \in CacheKeys |-> NoEntry]
  /\ storageAvailable \in BOOLEAN
  /\ localStorage \in [StorageKeys -> PriorItems \cup {MemberItem}]
  /\ \A k \in CacheKeys : localStorage[k] \in PriorItems
  /\ localStorage[STORAGE_KEY] \in {NoItem, MemberItem}
  /\ ~storageAvailable => \A k \in StorageKeys : localStorage[k] = NoItem
  /\ now = 0
  /\ lastSaved = [k \in CacheKeys |-> NoEntry]
  /\ dropped = {}
  /\ lastCall = Call("load", <<>>, Absent, FALSE)

\* an unexpired entry for key sits in the Map or in localStorage
HasUnexpired(key) ==
  \/ memoryCache[key].present /\ now - memoryCache[key].timestamp < CACHE_TTL
  \/ localStorage[key].kind = "json"
       /\ now - localStorage[key].timestamp < CACHE_TTL

CacheGet(key) ==
  LET r == getFromCache(key, memoryCache, localStorage, storageAvailable, now)
  IN /\ memoryCache' = r.mem
     /\ localStorage' = r.ls
     /\ lastCall' = Call("get", key, r.ret, r.threw)
     /\ dropped' = {}
     /\ UNCHANGED <<storageAvailable, now, lastSaved>>

CacheSave(key, d, full) ==
  LET r == saveToCache(key, d, memoryCache, localStorage, storageAvailable,
                       full, now)
  IN /\ memoryCache' = r.mem
     /\ localStorage' = r.ls
     /\ lastSaved' = [lastSaved EXCEPT ![key] = Entry(d, now)]
     /\ lastCall' = Call("save", key, Hit(d), r.threw)
     /\ dropped' = {}
     /\ UNCHANGED <<storageAvailable, now>>

CacheClear ==
  LET r == clearCache(memoryCache, localStorage, storageAvailable)
  IN /\ memoryCache' = r.mem
     /\ localStorage' = r.ls
     /\ lastSaved' = [k \in CacheKeys |-> NoEntry]
     /\ lastCall' = Call("clear", <<>>, Absent, FALSE)
     /\ dropped' = {k \in CacheKeys : HasUnexpired(k)}
     /\ UNCHANGED <<storageAvailable, now>>

\* time passes
Tick ==
  /\ now + (CACHE_TTL \div 2) <= MaxNow
  /\ now' = now + (CACHE_TTL \div 2)
  /\ lastCall' = Call("tick", <<>>, Absent, FALSE)
  /\ dropped' = {}
  /\ UNCHANGED <<memoryCache, localStorage, storageAvailable, lastSaved>>

\* the page is loaded again: a new Map, the same localStorage
PageLoad ==
  /\ memoryCache' = [k \in CacheKeys |-> NoEntry]
  /\ lastSaved' = [k \in CacheKeys |-> NoEntry]
  /\ lastCall' = Call("load", <<>>, Absent, FALSE)
  /\ dropped' = {}
  /\ UNCHANGED <<localStorage, storageAvailable, now>>

\* useAuth's saveToStorage / removeFromStorage (login, logout)
MemberStorage ==
  /\ storageAvailable
  /\ \E item \in {NoItem, MemberItem} :
       /\ item # localStorage[STORAGE_KEY]
       /\ localStorage' = [localStorage EXCEPT ![STORAGE_KEY] = item]
  /\ lastCall' = Call("member", STORAGE_KEY, Absent, FALSE)
  /\ dropped' = {}
  /\ UNCHANGED <<memoryCache, storageAvailable, now, lastSaved>>


\* ---- basic page fetch (defined here: it uses the cache operations)

\* what the provider's discover call can end with: "error" (rejected fetch,
\* non-2xx status, undeserializable body), "empty" (results: []), or a page
Outcomes == {"error", "empty"} \cup Data
\* { movies: [], totalPages: 0, totalResults: 0 }
EmptyResult == "empty"

FetchInit ==
  /\ inflight = [k \in CacheKeys |-> 0]
  /\ netRequests = [k \in CacheKeys |-> 0]
  /\ afterClear = FALSE

\* the total of a per-key counter
RECURSIVE SumOver(_, _)
SumOver(f, keys) ==
  IF keys = {} THEN 0
  ELSE LET k == CHOOSE x \in keys : TRUE
       IN f[k] + SumOver(f, keys \ {k})

\* fetchMoviesBasic(page, genreId) up to its first await: the cache lookup,
\* and on a miss discoverMovies -> fetchTMDB -> fetch(url) is issued.
fetchMoviesBasicStart(page, genreId) ==
  LET key == PageKey(page, genreId)
      r == getFromCache(key, memoryCache, localStorage, storageAvailable, now)
  IN /\ memoryCache' = r.mem
     /\ localStorage' = r.ls
     /\ lastCall' = Call("fetchStart", key, r.ret, r.threw)
     /\ afterClear' = (lastCall.op = "clear" /\ key \in dropped)
     /\ dropped' = {}
     /\ IF r.ret.hit
          THEN UNCHANGED <<inflight, netRequests>>
          ELSE /\ SumOver(netRequests, CacheKeys) < MaxRequests
               /\ inflight' = [inflight EXCEPT ![key] = @ + 1]
               /\ netRequests' = [netRequests EXCEPT ![key] = @ + 1]
     /\ UNCHANGED <<storageAvailable, now, lastSaved>>

\* the rest of fetchMoviesBasic, run when discoverMovies settles
discoverResponds(key, outcome, full) ==
  /\ inflight[key] > 0
  /\ inflight' = [inflight EXCEPT ![key] = @ - 1]
  /\ afterClear' = FALSE
  /\ dropped' = {}
  /\ IF outcome = "error"
       THEN /\ lastCall' = Call("fetchDone", key, Absent, TRUE)
            /\ UNCHANGED <<memoryCache, localStorage, lastSaved>>
       ELSE IF outcome = "empty"
         THEN /\ lastCall' = Call("fetchDone", key, Hit(EmptyResult), FALSE)
              /\ UNCHANGED <<memoryCache, localStorage, lastSaved>>
         ELSE LET r == saveToCache(key, outcome, memoryCache, localStorage,
                                   storageAvailable, full, now)
              IN /\ memoryCache' = r.mem
                 /\ localStorage' = r.ls
                 /\ lastSaved' = [lastSaved EXCEPT ![key] = Entry(outcome, now)]
                 /\ lastCall' = Call("fetchDone", key, Hit(outcome), r.threw)
  /\ UNCHANGED <<storageAvailable, now, netRequests>>

\* ======================================================================
\* REQUEST SCHEDULER
\* ======================================================================

NoPromise == [state |-> "none", of |-> 0]
Pending == [state |-> "pending", of |-> 0]
Settled(u) == promise[u].state \in {"resolved", "rejected"}

\* processQueue's entry test (`if (isProcessingQueue || length === 0) return`)
CanStartLoopUnguarded(flag, queue) == Len(queue) > 0
CanStartLoop(flag, queue) == ~flag /\ Len(queue) > 0

\* REQUEST_QUEUE.shift(): the oldest unit and the queue without it
ShiftNewest(queue) ==
  [unit |-> queue[Len(queue)], rest |-> SubSeq(queue, 1, Len(queue) - 1)]
Shift(queue) == [unit |-> Head(queue), rest |-> Tail(queue)]

\* the while condition of the worker loop, evaluated when a pacing delay ends
LoopOnce(queue) == FALSE
LoopContinues(queue) == Len(queue) > 0

\* The closure queueRequest pushes: try { resolve(await requestFn()) }
\* catch (error) { reject(error) }.  `settle` is what happens to the promise
\* of unit u, `throws` whether the closure itself rejects into processQueue.
WrapperNoCatch(u, ok) ==
  [settle |-> IF ok THEN [state |-> "resolved", of |-> u] ELSE Pending,
   throws |-> ~ok]
Wrapper(u, ok) ==
  [settle |-> [state |-> IF ok THEN "resolved" ELSE "rejected", of |-> u],
   throws |-> FALSE]

SchedInit ==
  /\ REQUEST_QUEUE = <<>>
  /\ isProcessingQueue = FALSE
  /\ loops = {}
  /\ promise = [u \in Units |-> NoPromise]
  /\ response = [u \in Units |-> "none"]
  /\ callOrder = <<>>
  /\ arrival = [u \in Units |-> "none"]
  /\ started = <<>>

\* queueRequest(requestFn): push the closure, then call processQueue(), which
\* returns at once when a loop is active and otherwise sets the flag, shifts
\* the first unit and runs it up to its first await (the HTTP request is out).
queueRequest ==
  /\ Len(callOrder) < MaxUnits
  /\ LET u == Len(callOrder) + 1
         q == Append(REQUEST_QUEUE, u)
     IN /\ callOrder' = Append(callOrder, u)
        /\ arrival' = [arrival EXCEPT ![u] =
                         IF loops = {} THEN "idle"
                         ELSE IF \E l \in loops : l.pc = "request" THEN "request"
                         ELSE IF Len(REQUEST_QUEUE) = 0 THEN "lastDelay"
                         ELSE "delay"]
        /\ promise' = [promise EXCEPT ![u] = Pending]
        /\ IF CanStartLoop(isProcessingQueue, q)
             THEN /\ isProcessingQueue' = TRUE
                  /\ REQUEST_QUEUE' = Shift(q).rest
                  /\ loops' = loops \cup {[unit |-> Shift(q).unit, pc |-> "request"]}
                  /\ started' = Append(started, Shift(q).unit)
             ELSE /\ REQUEST_QUEUE' = q
                  /\ UNCHANGED <<isProcessingQueue, loops, started>>
        /\ UNCHANGED response

\* `await request()` returns: the unit's requestFn settled (ok or not), the
\* closure settled the caller's promise, and the loop starts the pacing timer.
\* Were the closure to reject, processQueue would end there, flag still set.
requestSettlesWith(l, ok) ==
  /\ l.pc = "request"
  /\ response' = [response EXCEPT ![l.unit] = IF ok THEN "ok" ELSE "fail"]
  /\ promise' = [promise EXCEPT ![l.unit] = Wrapper(l.unit, ok).settle]
  /\ loops' = IF Wrapper(l.unit, ok).throws
                THEN loops \ {l}
                ELSE (loops \ {l}) \cup {[unit |-> l.unit, pc |-> "delay"]}
  /\ UNCHANGED <<REQUEST_QUEUE, isProcessingQueue, callOrder, arrival, started>>

requestSettles ==
  \E l \in loops : \E ok \in BOOLEAN : requestSettlesWith(l, ok)

\* The REQUEST_DELAY timer fires: the while condition is tested again; the loop
\* either shifts and starts the next unit or clears the flag and ends.
delayElapsed ==
  \E l \in loops :
    /\ l.pc = "delay"
    /\ IF LoopContinues(REQUEST_QUEUE)
         THEN /\ REQUEST_QUEUE' = Shift(REQUEST_QUEUE).rest
              /\ loops' = (loops \ {l}) \cup
                            {[unit |-> Shift(REQUEST_QUEUE).unit, pc |-> "request"]}
              /\ started' = Append(started, Shift(REQUEST_QUEUE).unit)
              /\ UNCHANGED isProcessingQueue
         ELSE /\ isProcessingQueue' = FALSE
              /\ loops' = loops \ {l}
              /\ UNCHANGED <<REQUEST_QUEUE, started>>
    /\ UNCHANGED <<promise, response, callOrder, arrival>>

\* ======================================================================
\* MOVIE DETAILS: the data
\* ======================================================================

\* Array.prototype.find, as the index of the first element passing the test
\* (0: find returns undefined)
\* among the indices passing its test
FindIndex(passing) ==
  IF passing = {} THEN 0 ELSE CHOOSE i \in passing : \A j \in passing : i <= j

\* The release_dates member of a details body:
\*   type "undefined"                     the member is missing
\*   type "object", hasResults FALSE      an object without 'results'
\*   type "object", hasResults TRUE       results is a list of
\*     [iso_3166_1, hasDates, release_dates], hasDates FALSE standing for an
\*     element whose release_dates member is missing; release_dates is a list
\*     of [certification]
NoReleaseDates == [type |-> "undefined", hasResults |-> FALSE, results |-> <<>>]
NoResults == [type |-> "object", hasResults |-> FALSE, results |-> <<>>]
ReleaseDates(results) ==
  [type |-> "object", hasResults |-> TRUE, results |-> results]
CountryDates(iso, dates) ==
  [iso_3166_1 |-> iso, hasDates |-> TRUE, release_dates |-> dates]
CountryNoDates(iso) ==
  [iso_3166_1 |-> iso, hasDates |-> FALSE, release_dates |-> <<>>]
Certified(c) == [certification |-> c]

\* what a call ends with: a value returned, or an exception thrown
Returns(v) == [threw |-> FALSE, value |-> v]
Throws == [threw |-> TRUE, value |-> "error"]

\* r => r.iso_3166_1 === 'US'
IsAnyCountry(r) == TRUE
IsUS(r) == r.iso_3166_1 = "US"

\* rd => rd.certification (a non-empty string is truthy)
HasCertification(rd) == rd.certification # ""

\* extractUSCertification(releaseDates)
extractUSCertification(releaseDates) ==
  IF releaseDates.type = "undefined" \/ ~releaseDates.hasResults
    THEN Returns("NR")                          \* !releaseDates?.results
  ELSE
    LET results == releaseDates.results
        us == FindIndex({i \in 1..Len(results) : IsUS(results[i])})
    IN IF us = 0 THEN Returns("NR")
       ELSE
         LET usRelease == results[us]
             dates == usRelease.release_dates
             found == FindIndex({i \in 1..Len(dates) : HasCertification(dates[i])})
         IN IF ~usRelease.hasDates THEN Throws  \* undefined.length
            ELSE IF Len(usRelease.release_dates) > 0 /\ found # 0
              THEN Returns(usRelease.release_dates[found].certification)
            ELSE Returns("NR")

\* ---- provider bodies, cached details, movies

\* A body of GET /movie/{id}: `isNull` is the JSON text null; genres is
\* [defined, names], defined FALSE standing for a missing member; runtime 0
\* stands for null (both falsy).
Body(tagline, runtime, genres, releaseDates) ==
  [isNull |-> FALSE, tagline |-> tagline, runtime |-> runtime,
   genres |-> genres, release_dates |-> releaseDates]
Genres(names) == [defined |-> TRUE, names |-> names]
NoGenres == [defined |-> FALSE, names |-> <<>>]
NullBody == [isNull |-> TRUE, tagline |-> "", runtime |-> 0,
             genres |-> NoGenres, release_dates |-> NoReleaseDates]

\* const { release_dates: _, ...details } = response
Details(body) ==
  [tagline |-> body.tagline, runtime |-> body.runtime, genres |-> body.genres]
\* CachedMovieDetails
CachedMovieDetails(details, certification) ==
  [details |-> details, certification |-> certification]

\* the application's Movie; title stands for the members enrichment copies
Movie(id, tagline, runtime, rating, genre) ==
  [id |-> id, title |-> "title", tagline |-> tagline, runtime |-> runtime,
   rating |-> rating, genre |-> genre]

\* `${details.runtime} min`
RuntimeText(runtime) == ToString(runtime) \o " min"

\* The object enrichMovieWithDetails builds from a movie and the details
\* (lines 500-508).
MergeDetailsAppend(movie, cached) ==
  LET details == cached.details
  IN [movie EXCEPT
        !.tagline = IF details.tagline # "" THEN details.tagline ELSE @,
        !.runtime = IF details.runtime # 0
                      THEN RuntimeText(details.runtime) ELSE @,
        !.rating = cached.certification,
        !.genre = IF details.genres.defined /\ Len(details.genres.names) > 0
                    THEN @ \o details.genres.names ELSE @]
MergeDetails(movie, cached) ==
  LET details == cached.details
  IN [movie EXCEPT
        !.tagline = IF details.tagline # "" THEN details.tagline ELSE @,
        !.runtime = IF details.runtime # 0
                      THEN RuntimeText(details.runtime) ELSE @,
        !.rating = cached.certification,
        !.genre = IF details.genres.defined /\ Len(details.genres.names) > 0
                    THEN details.genres.names ELSE @]

\* ---- the movies and bodies of the details specification
MovieIds == {1, 2}

\* getCacheKey('movie_details', movieId)
DetailsKey(id) == getCacheKey("movie_details", <<ToString(id)>>)
DetailKeys == {DetailsKey(id) : id \in MovieIds}

\* every member filled, the US certification behind an empty one
FullBody ==
  Body("t1", 120, Genres(<<"Drama">>),
       ReleaseDates(<<CountryDates("GB", <<Certified("15")>>),
                      CountryDates("US", <<Certified(""), Certified("PG-13")>>)>>))
\* nothing to add: no tagline, runtime null, no genres, no US release
SparseBody ==
  Body("", 0, Genres(<<>>),
       ReleaseDates(<<CountryDates("GB", <<Certified("15")>>)>>))
\* the US element lacks its release_dates member
BrokenBody ==
  Body("t1", 120, NoGenres, ReleaseDates(<<CountryNoDates("US")>>))
Bodies == {FullBody, SparseBody, BrokenBody, NullBody}

NoMovie == Movie(0, "", "", "", <<>>)
\* a movie as transformTMDBMovie makes it for a listing page: no tagline, no
\* runtime, rating 'NR'
BasicMovie(id) == Movie(id, "", "", "NR", <<"Action">>)
\* a movie whose members are all populated
PopulatedMovie(id) == Movie(id, "t0", "90 min", "PG", <<"Action">>)

NoCall == [id |-> 0, caller |-> "none", movie |-> NoMovie]
NoEnriched == [present |-> FALSE, movie |-> NoMovie]
NoEnrich == [status |-> "none", input |-> NoMovie, failed |-> FALSE,
             with |-> Throws, result |-> Returns(NoMovie)]

\* the detail variables of a specification that fetches no details
DetailsUnused ==
  /\ catalog = [id \in MovieIds |-> FullBody]
  /\ calls = [u \in Units |-> NoCall]
  /\ lastEnrich = NoEnrich
  /\ enriched = [id \in MovieIds |-> NoEnriched]
  /\ unhandled = 0

\* extractUSCertification not called on its own
ExtractUnused ==
  /\ certInput = NoReleaseDates
  /\ certOutput = [done |-> FALSE, out |-> Returns("")]

\* 5 concurrent requests per batch, the default of batchFetch's batchSize
BATCH_SIZE == 5

\* batchFetch not called
BatchUnused ==
  /\ items = <<>>
  /\ batchSize = BATCH_SIZE
  /\ batchIndex = 0
  /\ batchPc = "idle"
  /\ fetches = <<>>
  /\ resultMap = <<>>
  /\ launched = <<>>
  /\ delays = 0

\* TMDBMovieResponse, of which the code reads results, total_pages and
\* total_results
MovieResponse(entries) ==
  [results |-> entries, total_pages |-> 1, total_results |-> Len(entries)]

\* searchMoviesBasic not called
SearchUnused ==
  /\ searchResponse = MovieResponse(<<>>)
  /\ timezoneWest = FALSE
  /\ searchPc = "idle"
  /\ searchOut = Throws
  /\ searchRequests = 0

\* error.value = null
NoError == "null"

\* useMovies() as constructed (lines 27-36)
StoreInit ==
  /\ movies = <<>>
  /\ loading = FALSE
  /\ loadingMore = FALSE
  /\ loadingDetails = FALSE
  /\ error = NoError
  /\ currentPage = 1
  /\ totalPages = 0
  /\ totalResults = 0
  /\ currentGenre = "All"
  /\ searchQuery = ""
  /\ listFetches = <<>>
  /\ fetchCount = 0
  /\ detailJobs = {}
  /\ detailCount = 0
  /\ background = {}
  /\ uiRejections = 0
  /\ storeCall = "useMovies"

\* currentMember.value = null; memberId is then ''
NoMember == ""

\* App.vue as mounted, with an empty cart and no stored session
CheckoutUnused ==
  /\ cartItems = 0
  /\ supabaseConfigured = TRUE
  /\ currentMember = NoMember
  /\ pendingCheckout = FALSE
  /\ showLoginModal = FALSE
  /\ showCheckout = FALSE
  /\ modalLoading = "none"
  /\ newMemberCard = FALSE
  /\ orphanLogins = 0
  /\ submissions = 0
  /\ rpcCount = 0
  /\ submitCount = 0
  /\ submittedAs = {}
  /\ checkoutCall = "mounted"

RestUnused ==
  /\ DetailsUnused /\ ExtractUnused /\ BatchUnused /\ SearchUnused
  /\ StoreInit /\ CheckoutUnused

SchedNext ==
  \/ queueRequest /\ UNCHANGED <<cacheVars, fetchVars, restVars>>
  \/ requestSettles /\ UNCHANGED <<cacheVars, fetchVars, restVars>>
  \/ delayElapsed /\ UNCHANGED <<cacheVars, fetchVars, restVars>>

SchedSpecInit == SchedInit /\ CacheUnused /\ FetchInit /\ RestUnused

SchedSpec == SchedSpecInit /\ [][SchedNext]_vars

\* Timers fire and (the proviso of the drain claim) every network call settles.
SchedFairSpec ==
  /\ SchedSpec
  /\ WF_vars(requestSettles /\ UNCHANGED <<cacheVars, fetchVars, restVars>>)
  /\ WF_vars(delayElapsed /\ UNCHANGED <<cacheVars, fetchVars, restVars>>)

CacheNext ==
  \/ \E key \in CacheKeys : CacheGet(key) /\ UNCHANGED <<schedVars, fetchVars, restVars>>
  \/ \E key \in CacheKeys, d \in Data, full \in BOOLEAN :
       CacheSave(key, d, full) /\ UNCHANGED <<schedVars, fetchVars, restVars>>
  \/ CacheClear /\ UNCHANGED <<schedVars, fetchVars, restVars>>
  \/ Tick /\ UNCHANGED <<schedVars, fetchVars, restVars>>
  \/ PageLoad /\ UNCHANGED <<schedVars, fetchVars, restVars>>
  \/ MemberStorage /\ UNCHANGED <<schedVars, fetchVars, restVars>>

CacheSpecInit == CacheInit /\ SchedInit /\ FetchInit /\ RestUnused

CacheSpec == CacheSpecInit /\ [][CacheNext]_vars

\* ======================================================================
\* BASIC PAGE FETCH
\* ======================================================================

FetchNext ==
  \/ \E page \in Pages, genreId \in GenreIds :
       fetchMoviesBasicStart(page, genreId) /\ UNCHANGED <<schedVars, restVars>>
  \/ \E key \in CacheKeys, outcome \in Outcomes, full \in BOOLEAN :
       discoverResponds(key, outcome, full) /\ UNCHANGED <<schedVars, restVars>>
  \/ CacheClear /\ UNCHANGED <<schedVars, inflight, netRequests, restVars>>
       /\ afterClear' = FALSE
  \/ Tick /\ UNCHANGED <<schedVars, inflight, netRequests, restVars>>
       /\ afterClear' = FALSE

FetchSpecInit == CacheInit /\ SchedInit /\ FetchInit /\ RestUnused

FetchSpec == FetchSpecInit /\ [][FetchNext]_vars

\* ======================================================================
\* MOVIE DETAILS: fetch, enrichment, prefetch
\* ======================================================================

\* `if (cached) return cached` in getMovieDetailsWithCertification
IgnoreCached(cached) == FALSE
UseCached(cached) == cached.hit

\* `if (getFromCache(cacheKey)) return` in prefetchMovieDetails
PrefetchSkips(cached) == cached.hit

\* The rest of getMovieDetailsWithCertification once fetchTMDBQueued has
\* settled with `fetched` (lines 316-329): what the call ends with, and the
\* cache after it.
DetailsContinueDropsOnFailure(key, fetched, mem, ls, avail, full, t) ==
  LET same == [mem |-> mem, ls |-> ls]
  IN IF fetched.threw
       THEN [out |-> Throws, mem |-> [mem EXCEPT ![key] = NoEntry], ls |-> ls]
     ELSE IF fetched.value.isNull THEN [out |-> Throws] @@ same
     ELSE
       LET certification == extractUSCertification(fetched.value.release_dates)
           result == CachedMovieDetails(Details(fetched.value),
                                        certification.value)
           saved == saveToCache(key, result, mem, ls, avail, full, t)
       IN IF certification.threw THEN [out |-> Throws] @@ same
          ELSE [out |-> Returns(result), mem |-> saved.mem, ls |-> saved.ls]
DetailsContinue(key, fetched, mem, ls, avail, full, t) ==
  LET same == [mem |-> mem, ls |-> ls]
  IN IF fetched.threw THEN [out |-> Throws] @@ same
     ELSE IF fetched.value.isNull
       THEN [out |-> Throws] @@ same                 \* null.release_dates
     ELSE
       LET certification == extractUSCertification(fetched.value.release_dates)
           result == CachedMovieDetails(Details(fetched.value),
                                        certification.value)
           saved == saveToCache(key, result, mem, ls, avail, full, t)
       IN IF certification.threw THEN [out |-> Throws] @@ same
          ELSE [out |-> Returns(result), mem |-> saved.mem, ls |-> saved.ls]

\* enrichMovieWithDetails once its await has settled with `fetched`:
\* try { return {...movie, ...} } catch { return movie }
enrichRethrows(movie, fetched) ==
  IF fetched.threw THEN Throws
  ELSE Returns(MergeDetails(movie, fetched.value))
enrichSettles(movie, fetched) ==
  IF fetched.threw THEN Returns(movie)
  ELSE Returns(MergeDetails(movie, fetched.value))

\* `.catch(() => {})` on the promise prefetchMovieDetails lets go of: the
\* number of rejections left without a handler
prefetchNoCatch(out) == IF out.threw THEN 1 ELSE 0
prefetchCatch(out) == 0

\* fetchTMDBQueued(endpoint, params): queueRequest(() => fetchTMDB(...)), the
\* request is issued when the worker loop starts the unit
fetchTMDBNotQueued ==
  /\ Len(callOrder) < MaxUnits
  /\ LET u == Len(callOrder) + 1
     IN /\ callOrder' = Append(callOrder, u)
        /\ arrival' = [arrival EXCEPT ![u] = "idle"]
        /\ promise' = [promise EXCEPT ![u] = Pending]
        /\ loops' = loops \cup {[unit |-> u, pc |-> "request"]}
        /\ started' = Append(started, u)
        /\ UNCHANGED <<REQUEST_QUEUE, isProcessingQueue, response>>
fetchTMDBQueued == queueRequest

\* what the enrichment of `movie` records when its details call ended with out
Enrichment(movie, out) ==
  [status |-> "settled", input |-> movie, failed |-> out.threw, with |-> out,
   result |-> enrichSettles(movie, out)]

\* A call of getMovieDetailsWithCertification(id) up to its first await, made
\* directly ("details"), by enrichMovieWithDetails(movie) ("enrich") or by
\* prefetchMovieDetails(id) ("prefetch", which looks the key up itself first).
\* On a hit the caller's continuation runs in the same turn of the event loop.
getMovieDetailsStart(id, caller, movie) ==
  LET key == DetailsKey(id)
      own == getFromCache(key, memoryCache, localStorage, storageAvailable, now)
      skipped == caller = "prefetch" /\ PrefetchSkips(own.ret)
      r == IF caller = "prefetch"
             THEN getFromCache(key, own.mem, own.ls, storageAvailable, now)
             ELSE own
      u == Len(callOrder) + 1
  IN /\ memoryCache' = IF skipped THEN own.mem ELSE r.mem
     /\ localStorage' = IF skipped THEN own.ls ELSE r.ls
     /\ dropped' = {}
     /\ UNCHANGED <<storageAvailable, now, lastSaved, catalog>>
     /\ IF skipped
          THEN /\ lastCall' = Call("prefetchSkip", key, own.ret, FALSE)
               /\ UNCHANGED <<schedVars, calls, lastEnrich, enriched, unhandled>>
        ELSE IF UseCached(r.ret)
          THEN /\ lastCall' = Call("details", key, r.ret, FALSE)
               /\ UNCHANGED <<schedVars, calls, unhandled>>
               /\ IF caller = "enrich"
                    THEN /\ lastEnrich' = Enrichment(movie, Returns(r.ret.data))
                         /\ enriched' = [enriched EXCEPT ![id] =
                              [present |-> TRUE,
                               movie |-> MergeDetails(movie, r.ret.data)]]
                    ELSE UNCHANGED <<lastEnrich, enriched>>
        ELSE /\ Len(callOrder) < MaxCalls
             /\ fetchTMDBQueued
             /\ calls' = [calls EXCEPT ![u] =
                            [id |-> id, caller |-> caller, movie |-> movie]]
             /\ lastCall' = Call("detailsQueued", key, r.ret, FALSE)
             /\ UNCHANGED <<lastEnrich, enriched, unhandled>>

\* the movies enrichMovieWithDetails is called with: a listing's movie, a
\* populated one, or the result of an earlier enrichment
InputMovies(id) ==
  {BasicMovie(id), PopulatedMovie(id)}
    \cup (IF enriched[id].present THEN {enriched[id].movie} ELSE {})

getMovieDetails(id) == getMovieDetailsStart(id, "details", NoMovie)
prefetchMovieDetails(id) == getMovieDetailsStart(id, "prefetch", NoMovie)
enrichMovieWithDetails(movie) == getMovieDetailsStart(movie.id, "enrich", movie)
\* getMovieCertification(id): its catch turns a rejection into 'NR'
getMovieCertification(id) == getMovieDetailsStart(id, "certification", NoMovie)

\* The HTTP request of the running unit settles (ok: 2xx with the provider's
\* body; otherwise a rejected fetch or a non-2xx status): the queued closure
\* settles the promise, getMovieDetailsWithCertification resumes, and then
\* its caller does.
detailsResponds(l, ok, full) ==
  LET c == calls[l.unit]
      key == DetailsKey(c.id)
      fetched == IF ok THEN Returns(catalog[c.id]) ELSE Throws
      d == DetailsContinue(key, fetched, memoryCache, localStorage,
                           storageAvailable, full, now)
  IN /\ c.caller # "none"
     /\ requestSettlesWith(l, ok)
     /\ memoryCache' = d.mem
     /\ localStorage' = d.ls
     /\ lastCall' =
          IF c.caller = "certification"
            THEN Call("certificationDone", key,
                      Hit(IF d.out.threw THEN "NR"
                          ELSE d.out.value.certification), FALSE)
            ELSE Call("detailsDone", key,
                      IF d.out.threw THEN Absent ELSE Hit(d.out.value),
                      d.out.threw)
     /\ dropped' = {}
     /\ IF c.caller = "enrich"
          THEN /\ lastEnrich' = Enrichment(c.movie, d.out)
               /\ enriched' = IF d.out.threw THEN enriched
                              ELSE [enriched EXCEPT ![c.id] =
                                      [present |-> TRUE,
                                       movie |-> MergeDetails(c.movie, d.out.value)]]
               /\ UNCHANGED unhandled
          ELSE /\ unhandled' = unhandled +
                     (IF c.caller = "prefetch" THEN prefetchCatch(d.out) ELSE 0)
               /\ UNCHANGED <<lastEnrich, enriched>>
     /\ UNCHANGED <<storageAvailable, now, lastSaved, catalog, calls>>

\* the variables no details operation touches
outsideDetails ==
  <<fetchVars, extractVars, batchVars, searchVars, storeVars, checkoutVars>>

\* the REQUEST_DELAY timer fires while details are being fetched
pacingDelayEnds ==
  /\ delayElapsed
  /\ lastCall' = Call("delay", <<>>, Absent, FALSE)
  /\ dropped' = {}
  /\ UNCHANGED <<memoryCache, localStorage, storageAvailable, now, lastSaved>>

\* what an earlier session cached for a movie, 12 hours before this one
PriorDetails ==
  CachedMovieDetails(Details(FullBody),
                     extractUSCertification(FullBody.release_dates).value)

DetailsInit ==
  /\ memoryCache = [k \in DetailKeys |-> NoEntry]
  /\ storageAvailable \in BOOLEAN
  /\ \E prior \in BOOLEAN :
       /\ ~storageAvailable => ~prior
       /\ localStorage =
            [k \in DetailKeys |->
               IF prior /\ k = DetailsKey(1)
                 THEN Stringify(Entry(PriorDetails, 0 - (CACHE_TTL \div 2)))
                 ELSE NoItem]
  /\ now = 0
  /\ lastSaved = [k \in CacheKeys |-> NoEntry]
  /\ dropped = {}
  /\ lastCall = Call("load", <<>>, Absent, FALSE)
  /\ catalog \in [MovieIds -> Bodies]
  /\ catalog[2] = FullBody
  /\ calls = [u \in Units |-> NoCall]
  /\ lastEnrich = NoEnrich
  /\ enriched = [id \in MovieIds |-> NoEnriched]
  /\ unhandled = 0

DetailsNext ==
  \/ \E id \in MovieIds : getMovieDetails(id) /\ UNCHANGED outsideDetails
  \/ \E l \in loops, ok \in BOOLEAN, full \in BOOLEAN :
       detailsResponds(l, ok, full) /\ UNCHANGED outsideDetails
  \/ pacingDelayEnds /\ UNCHANGED <<detailVars, outsideDetails>>
  \/ Tick /\ UNCHANGED <<schedVars, detailVars, outsideDetails>>

DetailsSpecInit ==
  /\ DetailsInit /\ SchedInit /\ FetchInit /\ ExtractUnused /\ BatchUnused
  /\ SearchUnused
  /\ StoreInit /\ CheckoutUnused

DetailsSpec == DetailsSpecInit /\ [][DetailsNext]_vars

\* ---- enrichment: the modal of movie 1 is opened, again and again
EnrichNext ==
  \/ \E movie \in InputMovies(1) :
       enrichMovieWithDetails(movie) /\ UNCHANGED outsideDetails
  \/ \E l \in loops, ok \in BOOLEAN :
       detailsResponds(l, ok, FALSE) /\ UNCHANGED outsideDetails
  \/ pacingDelayEnds /\ UNCHANGED <<detailVars, outsideDetails>>
  \/ Tick /\ UNCHANGED <<schedVars, detailVars, outsideDetails>>

EnrichSpecInit ==
  /\ DetailsInit /\ SchedInit /\ FetchInit /\ ExtractUnused /\ BatchUnused
  /\ SearchUnused
  /\ StoreInit /\ CheckoutUnused

EnrichSpec == EnrichSpecInit /\ [][EnrichNext]_vars

\* ---- prefetch: cards are hovered while the details of movie 2 are asked for
PrefetchNext ==
  \/ \E id \in MovieIds : prefetchMovieDetails(id) /\ UNCHANGED outsideDetails
  \/ getMovieDetails(2) /\ UNCHANGED outsideDetails
  \/ \E l \in loops, ok \in BOOLEAN :
       detailsResponds(l, ok, FALSE) /\ UNCHANGED outsideDetails
  \/ pacingDelayEnds /\ UNCHANGED <<detailVars, outsideDetails>>
  \/ Tick /\ UNCHANGED <<schedVars, detailVars, outsideDetails>>

\* movie 1 is served a complete body or one whose processing throws
PrefetchSpecInit ==
  /\ DetailsInit /\ SchedInit /\ FetchInit /\ ExtractUnused /\ BatchUnused
  /\ SearchUnused
  /\ StoreInit /\ CheckoutUnused
  /\ catalog[1] \in {FullBody, BrokenBody}

PrefetchSpec == PrefetchSpecInit /\ [][PrefetchNext]_vars

\* ======================================================================
\* CERTIFICATION EXTRACTION on its own
\* ======================================================================

\* the sequences over S of length at most n
SeqsUpTo(S, n) == UNION {[1..k -> S] : k \in 0..n}

Certifications == {"", "PG-13", "R"}
Countries == {"US", "GB"}
\* the elements of a results list: with release dates, or lacking the member
CountryElements ==
  {CountryDates(iso, dates) :
     iso \in Countries,
     dates \in SeqsUpTo({Certified(c) : c \in Certifications}, MaxDates)}
    \cup {CountryNoDates(iso) : iso \in Countries}
\* the arguments extractUSCertification is called with
ReleaseDatesInputs ==
  {NoReleaseDates, NoResults}
    \cup {ReleaseDates(results) : results \in SeqsUpTo(CountryElements, MaxEntries)}

ExtractInit ==
  /\ certInput \in ReleaseDatesInputs
  /\ certOutput = [done |-> FALSE, out |-> Returns("")]

extractCall ==
  /\ ~certOutput.done
  /\ certOutput' = [done |-> TRUE, out |-> extractUSCertification(certInput)]
  /\ UNCHANGED certInput

ExtractNext ==
  extractCall
    /\ UNCHANGED <<schedVars, cacheVars, fetchVars, detailVars, batchVars,
                   searchVars, storeVars, checkoutVars>>

ExtractSpecInit ==
  /\ ExtractInit /\ SchedInit /\ CacheUnused /\ FetchInit /\ DetailsUnused
  /\ BatchUnused /\ SearchUnused
  /\ StoreInit /\ CheckoutUnused

ExtractSpec == ExtractSpecInit /\ [][ExtractNext]_vars

\* ======================================================================
\* BATCH FETCH
\* ======================================================================

\* items.slice(from, to), as the positions of the array it takes
Slice(arr, from, to) == {k \in 1..Len(arr) : from < k /\ k <= to}

\* what fetchFn(item) resolves with when it succeeds
ResultOf(item) == <<"result", item>>

\* await Promise.all(batch.map(...)): resumes when every member has settled
AnySettled(batch, f) == \E k \in batch : f[k] \in {"ok", "fail"}
AllSettled(batch, f) == \A k \in batch : f[k] \in {"ok", "fail"}

\* if (i + batchSize < items.length)
DelayNeeded(i, size, length) == i + size < length

\* The wrapper around fetchFn(item): try { return [item, result] } catch
\* { return null }.  entry: it yields an [item, result] pair; rejects: the
\* wrapper's promise rejects, and Promise.all with it.
itemNoCatch(ok) == [entry |-> ok, rejects |-> ~ok]
itemWrapper(ok) == [entry |-> ok, rejects |-> FALSE]

\* the body of the for loop up to its await: the group's fetches are started
StartGroup(i) ==
  LET batch == Slice(items, i, i + batchSize)
  IN /\ batchIndex' = i
     /\ fetches' = [k \in DOMAIN fetches |->
                      IF k \in batch THEN "running" ELSE fetches[k]]
     /\ launched' = Append(launched, batch)
     /\ batchPc' = "fetching"

\* the item lists and group sizes batchFetch is called with
BatchSizes == {1, 2, BATCH_SIZE}

BatchInit ==
  /\ \E n \in 0..MaxItems :
       /\ items = [k \in 1..n |-> k]
       /\ fetches = [k \in 1..n |-> "none"]
  /\ batchSize \in BatchSizes
  /\ batchIndex = 0
  /\ batchPc = "idle"
  /\ resultMap = <<>>
  /\ launched = <<>>
  /\ delays = 0

\* batchFetch(items, fetchFn, batchSize) up to its first await
batchFetch ==
  /\ batchPc = "idle"
  /\ IF 0 < Len(items)
       THEN StartGroup(0)
       ELSE /\ batchPc' = "done"
            /\ UNCHANGED <<batchIndex, fetches, launched>>
  /\ UNCHANGED <<items, batchSize, resultMap, delays>>

\* fetchFn(item) settles.  When that completes Promise.all, the loop body
\* goes on: the pairs are set in the Map, and the call either starts the
\* BATCH_DELAY timer or leaves the loop and returns.
fetchSettles(item, ok) ==
  LET batch == Slice(items, batchIndex, batchIndex + batchSize)
      f == [fetches EXCEPT ![item] = IF ok THEN "ok" ELSE "fail"]
      entries == {k \in batch : itemWrapper(f[k] = "ok").entry}
  IN /\ fetches[item] = "running"
     /\ fetches' = f
     /\ IF batchPc = "fetching" /\ item \in batch /\ itemWrapper(ok).rejects
          THEN /\ batchPc' = "rejected"
               /\ UNCHANGED resultMap
        ELSE IF batchPc = "fetching" /\ item \in batch /\ AllSettled(batch, f)
          THEN /\ resultMap' = [k \in DOMAIN resultMap \cup entries |->
                                  IF k \in entries THEN ResultOf(items[k])
                                  ELSE resultMap[k]]
               /\ batchPc' = IF DelayNeeded(batchIndex, batchSize, Len(items))
                               THEN "delay" ELSE "done"
        ELSE UNCHANGED <<batchPc, resultMap>>
     /\ UNCHANGED <<items, batchSize, batchIndex, launched, delays>>

\* the BATCH_DELAY timer fires: i += batchSize, and the next group starts
batchDelayElapsed ==
  /\ batchPc = "delay"
  /\ delays' = delays + 1
  /\ IF batchIndex + batchSize < Len(items)
       THEN StartGroup(batchIndex + batchSize)
       ELSE /\ batchPc' = "done"
            /\ batchIndex' = batchIndex + batchSize
            /\ UNCHANGED <<fetches, launched>>
  /\ UNCHANGED <<items, batchSize, resultMap>>

\* the variables batchFetch does not touch
outsideBatch ==
  <<schedVars, cacheVars, fetchVars, detailVars, extractVars, searchVars,
    storeVars, checkoutVars>>

BatchNext ==
  \/ batchFetch /\ UNCHANGED outsideBatch
  \/ \E item \in DOMAIN fetches, ok \in BOOLEAN :
       fetchSettles(item, ok) /\ UNCHANGED outsideBatch
  \/ batchDelayElapsed /\ UNCHANGED outsideBatch

BatchSpecInit ==
  /\ BatchInit /\ SchedInit /\ CacheUnused /\ FetchInit /\ DetailsUnused
  /\ ExtractUnused /\ SearchUnused
  /\ StoreInit /\ CheckoutUnused

BatchSpec == BatchSpecInit /\ [][BatchNext]_vars

\* ======================================================================
\* SEARCH
\* ======================================================================

\* A release_date member, by what `new Date(release_date)` makes of it:
\*   "iso"        'YYYY-MM-DD': midnight UTC of that day (jan1: January 1st)
\*   "empty"      the empty string: Invalid Date
\*   "malformed"  a text that is no date: Invalid Date
\*   "undefined"  the member is missing: Invalid Date
ReleaseDate(year, jan1) == [kind |-> "iso", year |-> year, jan1 |-> jan1]
NoDate(kind) == [kind |-> kind, year |-> 0, jan1 |-> FALSE]

\* a JavaScript number: an integer, or NaN
Number(n) == [nan |-> FALSE, n |-> n]
NaN == [nan |-> TRUE, n |-> 0]

\* new Date(release_date).getFullYear(): the year in local time, which for
\* midnight UTC of January 1st is the year before in a zone behind UTC
getFullYear(release_date, west) ==
  IF release_date.kind = "iso"
    THEN Number(IF west /\ release_date.jan1
                  THEN release_date.year - 1 ELSE release_date.year)
    ELSE NaN

\* year >= 1980 && year <= 1989 (every comparison with NaN is false)
InWindowOr(year) == ~year.nan /\ (year.n >= 1980 \/ year.n <= 1989)
InWindow(year) == ~year.nan /\ year.n >= 1980 /\ year.n <= 1989

\* response.results.filter(movie => ...) in searchMovies
FilterWindow(entries, west) ==
  LET Keep(movie) == InWindow(getFullYear(movie.release_date, west))
  IN SelectSeq(entries, Keep)

\* transformTMDBMovie(tmdbMovie, genreMap): the listing's movie with
\* year = release_date ? new Date(release_date).getFullYear() : 0
transformTMDBMovie(tmdbMovie, west) ==
  [year |-> IF tmdbMovie.release_date.kind \in {"empty", "undefined"}
              THEN Number(0)
              ELSE getFullYear(tmdbMovie.release_date, west)]
    @@ BasicMovie(tmdbMovie.id)

\* { movies: [], totalPages: 0, totalResults: 0 }
EmptyPage == [movies |-> <<>>, totalPages |-> 0, totalResults |-> 0]

\* getCacheKey('search_page', `${query}_${page}`), for the query 'q', page 1
SearchKey == getCacheKey("search_page", <<"q", ToString(1)>>)

\* the release dates of the entries of a search response
ReleaseDateValues ==
  {ReleaseDate(year, jan1) : year \in {1979, 1980, 1989, 1990}, jan1 \in BOOLEAN}
    \cup {NoDate(kind) : kind \in {"empty", "malformed", "undefined"}}

SearchInit ==
  /\ \E dates \in SeqsUpTo(ReleaseDateValues, MaxResults) :
       searchResponse =
         MovieResponse([k \in 1..Len(dates) |->
                          [id |-> k, release_date |-> dates[k]]])
  /\ timezoneWest \in BOOLEAN
  /\ searchPc = "idle"
  /\ searchOut = Throws
  /\ searchRequests = 0
  /\ memoryCache = [k \in {SearchKey} |-> NoEntry]
  /\ localStorage = [k \in {SearchKey} |-> NoItem]
  /\ storageAvailable \in BOOLEAN
  /\ now = 0
  /\ lastSaved = [k \in CacheKeys |-> NoEntry]
  /\ dropped = {}
  /\ lastCall = Call("load", <<>>, Absent, FALSE)

\* searchMoviesBasic('q', 1) up to its await: the cache lookup, and on a
\* miss searchMovies -> fetchTMDB -> fetch(url) is issued
searchMoviesBasicStart ==
  LET r == getFromCache(SearchKey, memoryCache, localStorage,
                        storageAvailable, now)
  IN /\ searchPc \in {"idle", "done"}
     /\ memoryCache' = r.mem
     /\ localStorage' = r.ls
     /\ lastCall' = Call("searchStart", SearchKey, r.ret, FALSE)
     /\ dropped' = {}
     /\ IF r.ret.hit
          THEN /\ searchPc' = "done"
               /\ searchOut' = Returns(r.ret.data)
               /\ UNCHANGED searchRequests
          ELSE /\ searchRequests < MaxRequests
               /\ searchPc' = "awaiting"
               /\ searchRequests' = searchRequests + 1
               /\ UNCHANGED searchOut
     /\ UNCHANGED <<storageAvailable, now, lastSaved, searchResponse,
                    timezoneWest>>

\* The request settles (ok: 2xx with the provider's body): searchMovies
\* filters the results, and searchMoviesBasic returns the empty page, or
\* transforms, caches and returns the movies left.
searchResponds(ok, full) ==
  LET filtered == FilterWindow(searchResponse.results, timezoneWest)
      result ==
        [movies |-> [k \in 1..Len(filtered) |->
                       transformTMDBMovie(filtered[k], timezoneWest)],
         totalPages |-> searchResponse.total_pages,
         totalResults |-> searchResponse.total_results]
      saved == saveToCache(SearchKey, result, memoryCache, localStorage,
                           storageAvailable, full, now)
  IN /\ searchPc = "awaiting"
     /\ searchPc' = "done"
     /\ dropped' = {}
     /\ lastCall' = Call("searchDone", SearchKey,
                         IF ok THEN Hit("") ELSE Absent, ~ok)
     /\ IF ~ok
          THEN /\ searchOut' = Throws
               /\ UNCHANGED <<memoryCache, localStorage>>
        ELSE IF Len(filtered) = 0
          THEN /\ searchOut' = Returns(EmptyPage)
               /\ UNCHANGED <<memoryCache, localStorage>>
        ELSE /\ searchOut' = Returns(result)
             /\ memoryCache' = saved.mem
             /\ localStorage' = saved.ls
     /\ UNCHANGED <<storageAvailable, now, lastSaved, searchResponse,
                    timezoneWest, searchRequests>>

\* the variables searchMoviesBasic does not touch
outsideSearch ==
  <<schedVars, fetchVars, detailVars, extractVars, batchVars, storeVars,
    checkoutVars>>

SearchNext ==
  \/ searchMoviesBasicStart /\ UNCHANGED outsideSearch
  \/ \E ok \in BOOLEAN, full \in BOOLEAN :
       searchResponds(ok, full) /\ UNCHANGED outsideSearch

SearchSpecInit ==
  /\ SearchInit /\ SchedInit /\ FetchInit /\ DetailsUnused /\ ExtractUnused
  /\ BatchUnused
  /\ StoreInit /\ CheckoutUnused

SearchSpec == SearchSpecInit /\ [][SearchNext]_vars

\* ======================================================================
\* LISTING REQUESTS next to details requests
\* ======================================================================

\* fetchTMDB(endpoint, params), as discoverMovies and searchMovies call it:
\* fetch(url) is called in the caller's own turn; the scheduler is not
\* involved
fetchTMDBThroughQueue == queueRequest
fetchTMDB == UNCHANGED schedVars

\* the keys of the listing pages: discover pages and the search page
ListingKeys == CacheKeys \cup {SearchKey}
\* every key the client caches under
ClientKeys == ListingKeys \cup DetailKeys

\* search responses holding no movie, or MaxResults movies of the window
ListingResponses ==
  {MovieResponse([k \in 1..n |->
                    [id |-> k, release_date |-> ReleaseDate(1985, FALSE)]]) :
     n \in {0, MaxResults}}

ListingInit ==
  /\ memoryCache = [k \in ClientKeys |-> NoEntry]
  /\ localStorage = [k \in ClientKeys |-> NoItem]
  /\ storageAvailable = TRUE
  /\ now = 0
  /\ lastSaved = [k \in CacheKeys |-> NoEntry]
  /\ dropped = {}
  /\ lastCall = Call("load", <<>>, Absent, FALSE)
  /\ searchResponse \in ListingResponses
  /\ timezoneWest = FALSE
  /\ searchPc = "idle"
  /\ searchOut = Throws
  /\ searchRequests = 0

\* listing requests issued so far
ListingRequests == SumOver(netRequests, CacheKeys) + searchRequests

ListingNext ==
  \/ \E page \in Pages :
       /\ ListingRequests < MaxRequests
       /\ fetchMoviesBasicStart(page, 0)
       /\ IF lastCall'.ret.hit THEN UNCHANGED schedVars ELSE fetchTMDB
       /\ UNCHANGED restVars
  \/ \E page \in Pages, outcome \in Outcomes, full \in BOOLEAN :
       discoverResponds(PageKey(page, 0), outcome, full)
         /\ UNCHANGED <<schedVars, restVars>>
  \/ /\ ListingRequests < MaxRequests
     /\ searchMoviesBasicStart
     /\ IF lastCall'.ret.hit THEN UNCHANGED schedVars ELSE fetchTMDB
     /\ UNCHANGED <<fetchVars, detailVars, extractVars, batchVars, storeVars,
                    checkoutVars>>
  \/ \E ok \in BOOLEAN, full \in BOOLEAN :
       searchResponds(ok, full) /\ UNCHANGED outsideSearch
  \/ getMovieDetails(1) /\ UNCHANGED outsideDetails
  \/ \E l \in loops, ok \in BOOLEAN :
       detailsResponds(l, ok, FALSE) /\ UNCHANGED outsideDetails
  \/ pacingDelayEnds /\ UNCHANGED <<detailVars, outsideDetails>>

ListingSpecInit ==
  /\ ListingInit /\ SchedInit /\ FetchInit /\ DetailsUnused /\ ExtractUnused
  /\ BatchUnused
  /\ StoreInit /\ CheckoutUnused

ListingSpec == ListingSpecInit /\ [][ListingNext]_vars

\* ======================================================================
\* DETAILS REQUESTS of every caller
\* ======================================================================

CallersInit ==
  /\ memoryCache = [k \in DetailKeys |-> NoEntry]
  /\ localStorage = [k \in DetailKeys |-> NoItem]
  /\ storageAvailable \in BOOLEAN
  /\ now = 0
  /\ lastSaved = [k \in CacheKeys |-> NoEntry]
  /\ dropped = {}
  /\ lastCall = Call("load", <<>>, Absent, FALSE)

\* Every function that asks for a movie's details.  The enrichments that one
\* group of fetchMoviesWithDetails' batchFetch starts in a single turn are
\* enrichMovieWithDetails calls that follow each other.
CallersNext ==
  \/ getMovieDetails(1) /\ UNCHANGED outsideDetails
  \/ getMovieCertification(1) /\ UNCHANGED outsideDetails
  \/ prefetchMovieDetails(1) /\ UNCHANGED outsideDetails
  \/ enrichMovieWithDetails(BasicMovie(1)) /\ UNCHANGED outsideDetails
  \/ \E l \in loops, ok \in BOOLEAN :
       detailsResponds(l, ok, FALSE) /\ UNCHANGED outsideDetails
  \/ pacingDelayEnds /\ UNCHANGED <<detailVars, outsideDetails>>

CallersSpecInit ==
  /\ CallersInit /\ SchedInit /\ FetchInit /\ DetailsUnused /\ ExtractUnused
  /\ BatchUnused /\ SearchUnused
  /\ StoreInit /\ CheckoutUnused

CallersSpec == CallersSpecInit /\ [][CallersNext]_vars

\* ======================================================================
\* THE MOVIE STORE (useMovies)
\* ======================================================================
\* The store's calls into the service are represented by what they end
\* with: a listing call returns a page, an empty page or throws; an
\* enrichment returns the movie, enriched or (on any failure inside the
\* service) as it was.

\* the genres and search texts the user picks from
StoreGenres == {"All", "Action"}
StoreQueries == {"", "q"}

\* getCurrentGenreId(): GENRE_TO_TMDB_ID[genre], 0 standing for undefined
getCurrentGenreId(genre) == IF genre # "All" THEN 28 ELSE 0

\* the service call of fetchMovies(page, ..): searchMoviesBasic(query, page)
\* when searchQuery.trim().length > 0, else fetchMoviesBasic(page, genreId)
ListRequest(genre, query, page) ==
  IF query # ""
    THEN [isSearch |-> TRUE, query |-> query, genreId |-> 0, page |-> page]
    ELSE [isSearch |-> FALSE, query |-> "",
          genreId |-> getCurrentGenreId(genre), page |-> page]

\* the listing a request is a page of
ListingOf(req) ==
  [isSearch |-> req.isSearch, query |-> req.query, genreId |-> req.genreId]

\* what the service returns for a request: the page's movies (one a page,
\* without details) and the listing's totals
ListMovie(req) == [id |-> req.page, listing |-> ListingOf(req), runtime |-> ""]
ListResult(req) ==
  [movies |-> <<ListMovie(req)>>, totalPages |-> MaxPages,
   totalResults |-> MaxPages]
EmptyListResult == [movies |-> <<>>, totalPages |-> 0, totalResults |-> 0]

\* computed(() => currentPage.value < totalPages.value)
hasMore == currentPage < totalPages

\* prefetchNextPage(currentPage, totalPages, ..): the service calls it lets go
PrefetchNextPageCalls(page, total) ==
  IF page >= total THEN {} ELSE {"nextPage"}

\* `.catch(() => {})` of prefetchNextPage and prefetchMovieDetails: the
\* rejections a background call that ended with `ok` leaves unhandled
backgroundNoCatch(ok) == IF ok THEN 0 ELSE 1
backgroundCatch(ok) == 0

\* fetchMovies(page, append) up to its await, for the filter it reads
fetchMoviesStart(genre, query, page, append) ==
  /\ fetchCount < MaxFetches
  /\ fetchCount' = fetchCount + 1
  /\ listFetches' = Append(listFetches, [req |-> ListRequest(genre, query, page),
                                         append |-> append])
  /\ IF append
       THEN /\ loadingMore' = TRUE
            /\ UNCHANGED <<loading, error>>
       ELSE /\ loading' = TRUE
            /\ error' = NoError
            /\ UNCHANGED loadingMore

\* what no list fetch changes before its await
storeRest == <<loadingDetails, totalPages, totalResults, detailJobs,
               detailCount, background, uiRejections>>

\* resetAndFetch() after the filter was set to (genre, query)
resetAndFetch(genre, query, op) ==
  /\ currentGenre' = genre
  /\ searchQuery' = query
  /\ currentPage' = 1
  /\ movies' = <<>>
  /\ fetchMoviesStart(genre, query, 1, FALSE)
  /\ storeCall' = op
  /\ UNCHANGED storeRest

\* init(), called once when the splash screen is dismissed
init ==
  /\ storeCall = "useMovies"
  /\ fetchMoviesStart(currentGenre, searchQuery, 1, FALSE)
  /\ storeCall' = "init"
  /\ UNCHANGED <<currentGenre, searchQuery, currentPage, movies, storeRest>>

setGenre(genre) ==
  /\ currentGenre # genre
  /\ resetAndFetch(genre, searchQuery, "setGenre")

\* setSearchQuery(query), when its debounce timer fires
debouncedSearch(query) == resetAndFetch(currentGenre, query, "setSearchQuery")

clearSearch == resetAndFetch(currentGenre, "", "clearSearch")

refresh == resetAndFetch(currentGenre, searchQuery, "refresh")

\* if (loadingMore.value || !hasMore.value) return;
loadMoreGuard == ~loadingMore /\ hasMore

loadMore ==
  /\ loadMoreGuard
  /\ fetchMoviesStart(currentGenre, searchQuery, currentPage + 1, TRUE)
  /\ storeCall' = "loadMore"
  /\ UNCHANGED <<currentGenre, searchQuery, currentPage, movies, storeRest>>

\* the sequence without its k-th element
RemoveAt(seq, k) == SubSeq(seq, 1, k - 1) \o SubSeq(seq, k + 1, Len(seq))

\* The service call of the k-th waiting fetchMovies settles: the rest of
\* fetchMovies (try / catch / finally).
listResponds(k, outcome) ==
  LET f == listFetches[k]
      result == IF outcome = "empty" THEN EmptyListResult ELSE ListResult(f.req)
  IN /\ listFetches' = RemoveAt(listFetches, k)
     /\ IF outcome = "error"
          THEN /\ error' = "Failed to fetch movies"
               /\ storeCall' = "listFailed"
               /\ UNCHANGED <<movies, totalPages, totalResults, currentPage,
                              background>>
          ELSE /\ movies' = IF f.append THEN movies \o result.movies
                            ELSE result.movies
               /\ totalPages' = result.totalPages
               /\ totalResults' = result.totalResults
               /\ currentPage' = f.req.page
               /\ background' = background \cup
                    PrefetchNextPageCalls(f.req.page, result.totalPages)
               /\ storeCall' = "listLoaded"
               /\ UNCHANGED error
     /\ loading' = FALSE
     /\ loadingMore' = FALSE
     /\ UNCHANGED <<loadingDetails, currentGenre, searchQuery, fetchCount,
                    detailJobs, detailCount, uiRejections>>

\* movies.value.findIndex(m => m.id === movieId), 0 for -1
MovieIndex(list, movieId) ==
  FindIndex({k \in 1..Len(list) : list[k].id = movieId})

\* getMovieWithDetails(movieId) up to its await; it returns at once, changing
\* nothing, when the movie is not listed or has its runtime
getMovieWithDetails(movieId) ==
  LET index == MovieIndex(movies, movieId)
  IN /\ index # 0
     /\ movies[index].runtime = ""
     /\ detailCount < MaxCalls
     /\ detailCount' = detailCount + 1
     /\ loadingDetails' = TRUE
     /\ detailJobs' = detailJobs \cup
                        {[n |-> detailCount + 1, movie |-> movies[index]]}
     /\ storeCall' = "getMovieWithDetails"
     /\ UNCHANGED <<movies, loading, loadingMore, error, currentPage,
                    totalPages, totalResults, currentGenre, searchQuery,
                    listFetches, fetchCount, background, uiRejections>>

\* enrichMovieWithDetails(movie) returns (ok: with details; otherwise the
\* movie as it was): the rest of getMovieWithDetails
enrichReturns(job, ok) ==
  LET enrichedMovie == IF ok THEN [job.movie EXCEPT !.runtime = "120 min"]
                       ELSE job.movie
      index == MovieIndex(movies, job.movie.id)
  IN /\ detailJobs' = detailJobs \ {job}
     /\ movies' = IF index # 0 THEN [movies EXCEPT ![index] = enrichedMovie]
                  ELSE movies
     /\ loadingDetails' = FALSE
     /\ storeCall' = IF ok THEN "detailsShown" ELSE "detailsKept"
     /\ UNCHANGED <<loading, loadingMore, error, currentPage, totalPages,
                    totalResults, currentGenre, searchQuery, listFetches,
                    fetchCount, detailCount, background, uiRejections>>

\* onMovieHover(movieId): prefetchMovieDetails lets a details call go
onMovieHover ==
  /\ detailCount < MaxCalls
  /\ detailCount' = detailCount + 1
  /\ background' = background \cup {"hover"}
  /\ storeCall' = "onMovieHover"
  /\ UNCHANGED <<movies, loading, loadingMore, loadingDetails, error,
                 currentPage, totalPages, totalResults, currentGenre,
                 searchQuery, listFetches, fetchCount, detailJobs,
                 uiRejections>>

\* the fire-and-forget calls of one kind have settled, the last one with `ok`
backgroundSettles(ok) ==
  /\ \E kind \in background : background' = background \ {kind}
  /\ uiRejections' = uiRejections + backgroundCatch(ok)
  /\ storeCall' = "backgroundSettled"
  /\ UNCHANGED <<movies, loading, loadingMore, loadingDetails, error,
                 currentPage, totalPages, totalResults, currentGenre,
                 searchQuery, listFetches, fetchCount, detailJobs,
                 detailCount>>

\* the variables of the service, which the store's model leaves alone
outsideStore ==
  <<schedVars, cacheVars, fetchVars, detailVars, extractVars, batchVars,
    searchVars, checkoutVars>>

\* ---- the list: every way to change the filter, load-more, the responses
StoreNext ==
  \/ init /\ UNCHANGED outsideStore
  \/ \E genre \in StoreGenres : setGenre(genre) /\ UNCHANGED outsideStore
  \/ \E query \in StoreQueries : debouncedSearch(query) /\ UNCHANGED outsideStore
  \/ clearSearch /\ UNCHANGED outsideStore
  \/ refresh /\ UNCHANGED outsideStore
  \/ loadMore /\ UNCHANGED outsideStore
  \/ \E k \in 1..Len(listFetches), outcome \in {"page", "empty", "error"} :
       listResponds(k, outcome) /\ UNCHANGED outsideStore
  \/ \E ok \in BOOLEAN : backgroundSettles(ok) /\ UNCHANGED outsideStore

StoreSpecInit ==
  /\ StoreInit /\ SchedInit /\ CacheUnused /\ FetchInit /\ DetailsUnused
  /\ ExtractUnused /\ BatchUnused /\ SearchUnused /\ CheckoutUnused

StoreSpec == StoreSpecInit /\ [][StoreNext]_vars

\* ---- the list with the modal of its first movie and the hovered cards:
\* searches, load-more, details on demand, prefetches
StoreDetailsNext ==
  \/ init /\ UNCHANGED outsideStore
  \/ \E query \in StoreQueries :
       fetchCount < MaxRequests /\ debouncedSearch(query)
         /\ UNCHANGED outsideStore
  \/ fetchCount < MaxRequests /\ loadMore /\ UNCHANGED outsideStore
  \/ \E k \in 1..Len(listFetches), outcome \in {"page", "empty", "error"} :
       listResponds(k, outcome) /\ UNCHANGED outsideStore
  \/ getMovieWithDetails(1) /\ UNCHANGED outsideStore
  \/ \E job \in detailJobs, ok \in BOOLEAN :
       enrichReturns(job, ok) /\ UNCHANGED outsideStore
  \/ onMovieHover /\ UNCHANGED outsideStore
  \/ \E ok \in BOOLEAN : backgroundSettles(ok) /\ UNCHANGED outsideStore

StoreDetailsSpecInit ==
  /\ StoreInit /\ SchedInit /\ CacheUnused /\ FetchInit /\ DetailsUnused
  /\ ExtractUnused /\ BatchUnused /\ SearchUnused /\ CheckoutUnused

StoreDetailsSpec == StoreDetailsSpecInit /\ [][StoreDetailsNext]_vars

\* ======================================================================
\* CHECKOUT (App.vue, CartSidebar, MemberLoginModal, useAuth, rentalService)
\* ======================================================================
\* A handler is callable while the element that emits its event is rendered
\* and enabled. The backend's procedures are represented by how their calls
\* end.

\* the member a login or signup yields
Member == "member-1"

\* submitRentals(memberId, cartItems) up to its await: the submit_rental RPC
\* is issued (isSupabaseConfigured() holds wherever it is called from)
submitRentals(memberId) ==
  /\ submitCount < MaxSubmits
  /\ submitCount' = submitCount + 1
  /\ submissions' = submissions + 1
  /\ rpcCount' = rpcCount + 1
  /\ submittedAs' = submittedAs \cup {memberId}

\* submitAndShowCheckout() up to the await of submitRentals, memberId being
\* auth.memberId.value when it runs
submitAndShowCheckout(memberId) == submitRentals(memberId)

\* what the login modal owns
modalVars == <<modalLoading, newMemberCard, orphanLogins>>
\* what only submitRentals and its response change
submitVars == <<submissions, rpcCount, submitCount, submittedAs>>

\* handleReviewSubmit(review): cart.add of a movie not yet in the cart
handleReviewSubmit ==
  /\ cartItems < MaxCart
  /\ cartItems' = cartItems + 1
  /\ checkoutCall' = "addToCart"
  /\ UNCHANGED <<supabaseConfigured, currentMember, pendingCheckout,
                 showLoginModal, showCheckout, modalVars, submitVars>>

\* handleCheckout(), emitted by the RENT NOW button
handleCheckout ==
  /\ cartItems # 0
  /\ IF ~supabaseConfigured
       THEN /\ showCheckout' = TRUE
            /\ checkoutCall' = "demoCheckout"
            /\ UNCHANGED <<pendingCheckout, showLoginModal, submitVars>>
       ELSE IF currentMember = NoMember
         THEN /\ pendingCheckout' = TRUE
              /\ showLoginModal' = TRUE
              /\ checkoutCall' = "loginFirst"
              /\ UNCHANGED <<showCheckout, submitVars>>
         ELSE /\ submitAndShowCheckout(currentMember)
              /\ checkoutCall' = "submit"
              /\ UNCHANGED <<pendingCheckout, showLoginModal, showCheckout>>
  /\ UNCHANGED <<cartItems, supabaseConfigured, currentMember, modalVars>>

\* handleLoginSuccess(), on the login modal's `success`
handleLoginSuccess(memberId) ==
  /\ showLoginModal' = FALSE
  /\ pendingCheckout' = FALSE
  /\ IF pendingCheckout
       THEN submitAndShowCheckout(memberId)
       ELSE UNCHANGED submitVars

\* MemberLoginModal handleSubmit() up to its await, in either mode
handleSubmit(mode) ==
  /\ showLoginModal
  /\ modalLoading = "none"
  /\ orphanLogins < MaxCalls
  /\ modalLoading' = mode
  /\ checkoutCall' = "modalSubmit"
  /\ UNCHANGED <<cartItems, supabaseConfigured, currentMember,
                 pendingCheckout, showLoginModal, showCheckout,
                 newMemberCard, orphanLogins, submitVars>>

\* auth.login / auth.signup of the open login modal settles: the rest of
\* handleSubmit; a login that succeeded emits `success` at once
modalResponds(ok) ==
  /\ modalLoading # "none"
  /\ modalLoading' = "none"
  /\ currentMember' = IF ok THEN Member ELSE currentMember
  /\ IF ok /\ modalLoading = "login"
       THEN /\ handleLoginSuccess(Member)
            /\ newMemberCard' = FALSE
            /\ checkoutCall' = "loginSuccess"
       ELSE /\ newMemberCard' = (ok \/ newMemberCard)
            /\ checkoutCall' = IF ok THEN "signedUp" ELSE "loginFailed"
            /\ UNCHANGED <<pendingCheckout, showLoginModal, submitVars>>
  /\ UNCHANGED <<cartItems, supabaseConfigured, showCheckout, orphanLogins>>

\* handleContinue(), the button under the new member's card
handleContinue ==
  /\ showLoginModal
  /\ newMemberCard
  /\ handleLoginSuccess(currentMember)
  /\ newMemberCard' = FALSE
  /\ checkoutCall' = "continue"
  /\ UNCHANGED <<cartItems, supabaseConfigured, currentMember, showCheckout,
                 modalLoading, orphanLogins>>

\* closeLoginModal(): the modal is unmounted, a call it made goes on
closeLoginModal ==
  /\ showLoginModal
  /\ showLoginModal' = FALSE
  /\ pendingCheckout' = FALSE
  /\ modalLoading' = "none"
  /\ newMemberCard' = FALSE
  /\ orphanLogins' = orphanLogins + (IF modalLoading # "none" THEN 1 ELSE 0)
  /\ checkoutCall' = "closeLogin"
  /\ UNCHANGED <<cartItems, supabaseConfigured, currentMember, showCheckout,
                 submitVars>>

\* auth.login / auth.signup of a closed login modal settles: the member is
\* set, the unmounted modal emits nothing
orphanResponds(ok) ==
  /\ orphanLogins > 0
  /\ orphanLogins' = orphanLogins - 1
  /\ currentMember' = IF ok THEN Member ELSE currentMember
  /\ checkoutCall' = "orphanLogin"
  /\ UNCHANGED <<cartItems, supabaseConfigured, pendingCheckout,
                 showLoginModal, showCheckout, modalLoading, newMemberCard,
                 submitVars>>

\* AppHeader handleLogout(): auth.logout()
handleLogout ==
  /\ currentMember # NoMember
  /\ currentMember' = NoMember
  /\ checkoutCall' = "logout"
  /\ UNCHANGED <<cartItems, supabaseConfigured, pendingCheckout,
                 showLoginModal, showCheckout, modalVars, submitVars>>

\* the submit_rental RPC settles, either way: the rest of
\* submitAndShowCheckout (catch, then completeCheckout())
submitResponds(ok) ==
  /\ submissions > 0
  /\ submissions' = submissions - 1
  /\ showCheckout' = TRUE
  /\ checkoutCall' = IF ok THEN "submitted" ELSE "submitFailed"
  /\ UNCHANGED <<cartItems, supabaseConfigured, currentMember,
                 pendingCheckout, showLoginModal, modalVars, rpcCount,
                 submitCount, submittedAs>>

\* handleCheckoutDone(), on the checkout modal's `done` or Escape
handleCheckoutDone ==
  /\ showCheckout
  /\ cartItems' = 0
  /\ showCheckout' = FALSE
  /\ rpcCount' = 0
  /\ checkoutCall' = "checkoutDone"
  /\ UNCHANGED <<supabaseConfigured, currentMember, pendingCheckout,
                 showLoginModal, modalVars, submissions, submitCount,
                 submittedAs>>

\* the variables of the service and of the movie store
outsideCheckout ==
  <<schedVars, cacheVars, fetchVars, detailVars, extractVars, batchVars,
    searchVars, storeVars>>

\* App.vue as mounted: configured or in demo mode, with or without a session
\* restored by auth.restoreSession()
CheckoutInit ==
  /\ cartItems = 0
  /\ supabaseConfigured \in BOOLEAN
  /\ currentMember \in {NoMember, Member}
  /\ pendingCheckout = FALSE
  /\ showLoginModal = FALSE
  /\ showCheckout = FALSE
  /\ modalLoading = "none"
  /\ newMemberCard = FALSE
  /\ orphanLogins = 0
  /\ submissions = 0
  /\ rpcCount = 0
  /\ submitCount = 0
  /\ submittedAs = {}
  /\ checkoutCall = "mounted"

CheckoutNext ==
  \/ handleReviewSubmit /\ UNCHANGED outsideCheckout
  \/ handleCheckout /\ UNCHANGED outsideCheckout
  \/ \E mode \in {"login", "signup"} :
       handleSubmit(mode) /\ UNCHANGED outsideCheckout
  \/ \E ok \in BOOLEAN : modalResponds(ok) /\ UNCHANGED outsideCheckout
  \/ handleContinue /\ UNCHANGED outsideCheckout
  \/ closeLoginModal /\ UNCHANGED outsideCheckout
  \/ \E ok \in BOOLEAN : orphanResponds(ok) /\ UNCHANGED outsideCheckout
  \/ handleLogout /\ UNCHANGED outsideCheckout
  \/ \E ok \in BOOLEAN : submitResponds(ok) /\ UNCHANGED outsideCheckout
  \/ handleCheckoutDone /\ UNCHANGED outsideCheckout

CheckoutSpecInit ==
  /\ CheckoutInit /\ StoreInit /\ SchedInit /\ CacheUnused /\ FetchInit
  /\ DetailsUnused /\ ExtractUnused /\ BatchUnused /\ SearchUnused

CheckoutSpec == CheckoutSpecInit /\ [][CheckoutNext]_vars

\* ---------------------------------------------------------------- claims
\* C1: at every instant at most one unit is between its pop from
\* REQUEST_QUEUE and the end of the pacing delay that follows it, whenever
\* queueRequest is called (loop running, loop sleeping, or idle); so no
\* second unit is started before that delay has elapsed.
C1_MutualExclusion ==
  /\ Cardinality(loops) <= 1
  /\ Cardinality({l.unit : l \in loops}) = Cardinality(loops)
  /\ \A l \in loops : \A i \in 1..Len(started) :
       started[i] = l.unit => i = Len(started)

\* a queueRequest arrived while the previous unit's pacing delay is running
C1_Witness ==
  /\ \E l \in loops : l.pc = "delay" /\ Len(REQUEST_QUEUE) > 0
  /\ \E u, v \in Units : arrival[u] = "lastDelay" /\ arrival[v] = "delay"

\* C2: units begin execution in exactly the order queueRequest was called.
C2_Fifo ==
  /\ Len(started) <= Len(callOrder)
  /\ \A i \in 1..Len(started) : started[i] = callOrder[i]

\* three units started, two of them enqueued while the loop was busy, and
\* more waiting
C2_Witness ==
  /\ Len(started) >= 3
  /\ Len(REQUEST_QUEUE) >= 1
  /\ \E i, j \in 1..Len(started) :
       i < j /\ arrival[started[i]] = "request" /\ arrival[started[j]] \in {"delay", "lastDelay"}

\* C3: a queueRequest made while a loop is active starts no second loop, no
\* unit is ever left in the queue with no loop running, and (every network
\* call settling) each enqueued unit is eventually run and its promise
\* settled.
C3_SingleLoopDrains ==
  /\ [](Cardinality(loops) <= 1)
  /\ [](isProcessingQueue <=> loops # {})
  /\ [](Len(REQUEST_QUEUE) > 0 => loops # {})
  /\ \A u \in Units : (promise[u].state = "pending") ~> Settled(u)

\* a unit enqueued during the loop's final pacing delay has been settled
C3_Witness ==
  /\ Len(callOrder) >= 2
  /\ arrival[callOrder[Len(callOrder)]] = "lastDelay"
  /\ \A i \in 1..Len(callOrder) : Settled(callOrder[i])
  /\ loops = {}
  /\ ~isProcessingQueue

\* C4: a failing unit rejects its own promise only, with its own error; the
\* loop goes on, and every unit before and after it settles with its own
\* outcome: once no loop is left, no called unit is still pending.
C4_FailureIsolation ==
  /\ \A u \in Units :
       /\ promise[u].state = "rejected" <=> response[u] = "fail"
       /\ promise[u].state = "resolved" <=> response[u] = "ok"
       /\ Settled(u) => promise[u].of = u
  /\ loops = {} => \A i \in 1..Len(callOrder) : Settled(callOrder[i])
  /\ Len(REQUEST_QUEUE) > 0 => loops # {}

\* a failure between two successes, all three settled
C4_Witness ==
  \E u \in Units :
    /\ u > 1 /\ u < MaxUnits
    /\ promise[u].state = "rejected"
    /\ promise[u - 1].state = "resolved"
    /\ promise[u + 1].state = "resolved"

\* C5: getFromCache returns an entry's data only if now - timestamp < 24 h;
\* when every entry held for the key (Map, localStorage or both) is 24 h old
\* or older, it reports absent.
C5_CacheTTL ==
  /\ \A k \in CacheKeys :
       LET r == getFromCache(k, memoryCache, localStorage, storageAvailable, now)
           memOk == /\ memoryCache[k].present
                    /\ memoryCache[k].data = r.ret.data
                    /\ now - memoryCache[k].timestamp < CACHE_TTL
           lsOk == /\ localStorage[k].kind = "json"
                   /\ localStorage[k].data = r.ret.data
                   /\ now - localStorage[k].timestamp < CACHE_TTL
       IN /\ r.ret.hit => memOk \/ lsOk
          /\ ~HasUnexpired(k) => r.ret = Absent
  /\ (lastCall.op = "get" /\ lastCall.ret.hit) =>
       /\ memoryCache[lastCall.key].data = lastCall.ret.data
       /\ now - memoryCache[lastCall.key].timestamp < CACHE_TTL

\* a read found the key exactly 24 h old in both tiers and reported absent
C5_Witness ==
  /\ lastCall.op = "get"
  /\ lastCall.ret = Absent
  /\ memoryCache[lastCall.key].present
  /\ now - memoryCache[lastCall.key].timestamp = CACHE_TTL
  /\ lastSaved[lastCall.key] = memoryCache[lastCall.key]
  /\ localStorage[lastCall.key] = NoItem

\* C6: with localStorage unusable, or holding a corrupt or unparsable text
\* for the key, getFromCache does not throw and returns a valid in-memory hit
\* or absent.
C6_ReadAbsorbsStorageFailure ==
  /\ \A k \in CacheKeys :
       LET r == getFromCache(k, memoryCache, localStorage, storageAvailable, now)
       IN (~storageAvailable
             \/ localStorage[k].kind \in {"garbage", "null", "noTimestamp"}) =>
            /\ ~r.threw
            /\ \/ r.ret = Absent
               \/ /\ memoryCache[k].present
                  /\ now - memoryCache[k].timestamp < CACHE_TTL
                  /\ r.ret = Hit(memoryCache[k].data)
  /\ lastCall.op = "get" => ~lastCall.threw

\* a read met an unparsable stored text and reported absent
C6_Witness ==
  /\ lastCall.op = "get"
  /\ localStorage[lastCall.key].kind \in {"garbage", "null"}
  /\ lastCall.ret = Absent
  /\ ~lastCall.threw

\* C7: saveToCache always writes the Map and never throws, also when the
\* localStorage write fails; a getFromCache of the key within 24 h in the
\* same session returns the saved data.
C7_SaveSurvivesStorageFailure ==
  /\ lastCall.op = "save" =>
       /\ ~lastCall.threw
       /\ memoryCache[lastCall.key] = Entry(lastCall.ret.data, now)
  /\ \A k \in CacheKeys :
       (lastSaved[k].present /\ now - lastSaved[k].timestamp < CACHE_TTL) =>
         getFromCache(k, memoryCache, localStorage, storageAvailable, now).ret
           = Hit(lastSaved[k].data)
  /\ (lastCall.op = "get" /\ lastSaved[lastCall.key].present
        /\ now - lastSaved[lastCall.key].timestamp < CACHE_TTL) =>
       lastCall.ret = Hit(lastSaved[lastCall.key].data)

\* a read returned data whose localStorage write had failed
C7_Witness ==
  /\ lastCall.op = "get"
  /\ lastSaved[lastCall.key].present
  /\ lastCall.ret = Hit(lastSaved[lastCall.key].data)
  /\ localStorage[lastCall.key] # Stringify(lastSaved[lastCall.key])
  /\ now > lastSaved[lastCall.key].timestamp

\* C8: after clearCache the Map is empty and no localStorage key starting
\* with 'tmdb_cache_' remains; every other localStorage key keeps its value.
C8_ClearExactlyLibraryKeys ==
  [][lastCall'.op = "clear" =>
       /\ \A k \in CacheKeys : memoryCache'[k] = NoEntry
       /\ \A k \in StorageKeys :
            IF StartsWith(k, <<"tmdb", "cache">>)
              THEN localStorage'[k] = NoItem
              ELSE localStorage'[k] = localStorage[k]]_vars

\* a clear removed unexpired entries and the member session is still stored
C8_Witness ==
  /\ lastCall.op = "clear"
  /\ dropped = CacheKeys
  /\ localStorage[STORAGE_KEY] = MemberItem

C10_SecondCallFromCache ==
  [][(lastCall.op = "fetchDone" /\ ~lastCall.threw
        /\ lastCall'.op = "fetchStart" /\ lastCall'.key = lastCall.key) =>
       /\ lastCall'.ret.hit
       /\ netRequests' = netRequests]_vars

\* C11: a getMovieDetailsWithCertification(id) made while an unexpired
\* 'movie_details' entry exists for id returns that entry in the same turn,
\* whatever the queue is doing: nothing is pushed onto REQUEST_QUEUE, no
\* request is started, no loop or promise changes; and a call that missed
\* and got its response has the result in the cache when it returns.
C11_DetailsHitShortCircuits ==
  [][/\ \A id \in MovieIds :
          (/\ lastCall'.op \in {"details", "detailsQueued"}
           /\ lastCall'.key = DetailsKey(id)
           /\ HasUnexpired(DetailsKey(id))) =>
            /\ lastCall'.op = "details"
            /\ lastCall'.ret.hit
            /\ LET k == DetailsKey(id)
                   inMemory == /\ memoryCache[k].present
                               /\ now - memoryCache[k].timestamp < CACHE_TTL
               IN lastCall'.ret.data = IF inMemory THEN memoryCache[k].data
                                       ELSE localStorage[k].data
            /\ REQUEST_QUEUE' = REQUEST_QUEUE
            /\ callOrder' = callOrder
            /\ started' = started
            /\ loops' = loops
            /\ promise' = promise
     /\ (lastCall'.op = "detailsDone" /\ ~lastCall'.threw) =>
          /\ memoryCache'[lastCall'.key].present
          /\ memoryCache'[lastCall'.key].timestamp = now
          /\ memoryCache'[lastCall'.key].data = lastCall'.ret.data]_vars

\* details were returned from the cache while one request was running and
\* another was waiting in the queue
C11_Witness ==
  /\ lastCall.op = "details"
  /\ lastCall.ret.hit
  /\ \E l \in loops : l.pc = "request"
  /\ Len(REQUEST_QUEUE) > 0

\* C12 (as claimed): extractUSCertification never throws, and returns 'NR'
\* for undefined, for an object without results, for an empty results list,
\* for a list with no US element, and for a first US element whose
\* release_dates is empty, is missing, or holds only empty certifications.
C12_ExtractionTotal ==
  certOutput.done =>
    /\ ~certOutput.out.threw
    /\ LET rs == certInput.results
           us == {i \in 1..Len(rs) : rs[i].iso_3166_1 = "US"}
           first == CHOOSE i \in us : \A j \in us : i <= j
           listed ==
             \/ certInput.type = "undefined"
             \/ ~certInput.hasResults
             \/ rs = <<>>
             \/ us = {}
             \/ ~rs[first].hasDates
             \/ \A d \in 1..Len(rs[first].release_dates) :
                  rs[first].release_dates[d].certification = ""
       IN listed => certOutput.out.value = "NR"

\* C13: on a structure every element of which has its release_dates list,
\* extractUSCertification returns the first non-empty certification, in list
\* order, of the first element whose country code is 'US', and 'NR' exactly
\* when there is none; the elements of other countries change nothing.
C13_ExtractionResult ==
  LET rs == certInput.results
      wellFormed == /\ certInput.type = "object"
                    /\ certInput.hasResults
                    /\ \A i \in 1..Len(rs) : rs[i].hasDates
      us == {i \in 1..Len(rs) : rs[i].iso_3166_1 = "US"}
      first == CHOOSE i \in us : \A j \in us : i <= j
      dates == rs[first].release_dates
      rated == {d \in 1..Len(dates) : dates[d].certification # ""}
      firstRated == CHOOSE d \in rated : \A e \in rated : d <= e
      OnlyUS(r) == r.iso_3166_1 = "US"
  IN (certOutput.done /\ wellFormed) =>
       /\ ~certOutput.out.threw
       /\ IF us = {} \/ rated = {}
            THEN certOutput.out.value = "NR"
            ELSE /\ certOutput.out.value = dates[firstRated].certification
                 /\ certOutput.out.value # "NR"
       /\ extractUSCertification(ReleaseDates(SelectSeq(rs, OnlyUS)))
            = certOutput.out

\* another country's rated element comes first, and the US element's first
\* release date carries no certification
C13_Witness ==
  /\ certOutput.done
  /\ certInput =
       ReleaseDates(<<CountryDates("GB", <<Certified("R")>>),
                      CountryDates("US", <<Certified(""), Certified("PG-13")>>)>>)
  /\ certOutput.out = Returns("PG-13")

\* C14: enrichMovieWithDetails never rejects, and when its details fetch
\* failed (rejected request or non-2xx status, a null body, a body on which
\* certification extraction throws) it resolves with its input movie, every
\* member unchanged.
C14_EnrichFailureInvisible ==
  lastEnrich.status = "settled" =>
    /\ ~lastEnrich.result.threw
    /\ lastEnrich.failed => lastEnrich.result.value = lastEnrich.input

\* the request of a populated movie was answered 200 with the body whose US
\* element lacks release_dates, and the enrichment settled as failed
C14_Witness ==
  /\ lastEnrich.status = "settled"
  /\ lastEnrich.failed
  /\ lastEnrich.input = PopulatedMovie(1)
  /\ catalog[1] = BrokenBody
  /\ Len(callOrder) = 1
  /\ response[1] = "ok"

\* C15 (as claimed): a successful enrichment replaces tagline, runtime,
\* rating and genre only by an authoritative value that is non-empty (for the
\* rating: not the default 'NR'); so a real certification is never changed
\* to 'NR', and a non-empty tagline, runtime or genre list never becomes
\* empty.
C15_EnrichNeverRegresses ==
  (lastEnrich.status = "settled" /\ ~lastEnrich.failed) =>
    LET in == lastEnrich.input
        out == lastEnrich.result.value
        details == lastEnrich.with.value.details
        certification == lastEnrich.with.value.certification
    IN /\ out.tagline = IF details.tagline # "" THEN details.tagline
                        ELSE in.tagline
       /\ out.runtime = IF details.runtime # 0
                          THEN ToString(details.runtime) \o " min"
                          ELSE in.runtime
       /\ out.genre = IF details.genres.defined /\ details.genres.names # <<>>
                        THEN details.genres.names ELSE in.genre
       /\ out.rating = IF certification # "NR" THEN certification
                       ELSE in.rating
       /\ in.tagline # "" => out.tagline # ""
       /\ in.runtime # "" => out.runtime # ""
       /\ in.genre # <<>> => out.genre # <<>>
       /\ in.rating # "NR" => out.rating # "NR"

\* C16: when enrichMovieWithDetails is called with the result of the last
\* successful enrichment of the movie while the details that enrichment
\* cached are unexpired, the call is a cache hit (nothing is queued, no
\* request is started) and resolves with a movie equal to its input, member
\* by member.
C16_EnrichIdempotent ==
  [][LET input == IF lastCall'.op = "details" THEN lastEnrich'.input
                  ELSE calls'[Len(callOrder')].movie
     IN (/\ lastCall'.op \in {"details", "detailsQueued"}
         /\ enriched[1].present
         /\ HasUnexpired(DetailsKey(1))
         /\ input = enriched[1].movie) =>
          /\ lastCall'.op = "details"
          /\ REQUEST_QUEUE' = REQUEST_QUEUE
          /\ callOrder' = callOrder
          /\ started' = started
          /\ loops' = loops
          /\ ~lastEnrich'.failed
          /\ lastEnrich'.result = Returns(enriched[1].movie)]_vars

\* a listing's movie was enriched over the network with the full body, and
\* its result was enriched again, from the cache, some hours later
C16_Witness ==
  /\ lastCall.op = "details"
  /\ lastEnrich.status = "settled"
  /\ lastEnrich.input = MergeDetails(BasicMovie(1), lastEnrich.with.value)
  /\ lastEnrich.input # BasicMovie(1)
  /\ lastEnrich.result.value = lastEnrich.input
  /\ catalog[1] = FullBody
  /\ Len(callOrder) = 1
  /\ response[1] = "ok"
  /\ now > memoryCache[DetailsKey(1)].timestamp

\* C17: prefetchMovieDetails(id) with an unexpired details entry cached
\* queues nothing and starts no request; otherwise it queues exactly one
\* details fetch and returns while that fetch is still pending.  A failure
\* of the fetch leaves no rejection unhandled, and the settling of a
\* prefetch changes no other unit's promise or response and does not stop
\* the loop.
C17_PrefetchFireAndForget ==
  [][LET u == Len(callOrder')
         isPrefetch ==
           \/ lastCall'.op = "prefetchSkip"
           \/ /\ lastCall'.op \in {"details", "detailsQueued"}
              /\ u > Len(callOrder)
              /\ calls'[u].caller = "prefetch"
         settling == {v \in Units : response[v] = "none" /\ response'[v] # "none"}
     IN /\ (isPrefetch /\ HasUnexpired(lastCall'.key)) =>
             /\ lastCall'.op = "prefetchSkip"
             /\ REQUEST_QUEUE' = REQUEST_QUEUE
             /\ callOrder' = callOrder
             /\ started' = started
             /\ loops' = loops
        /\ (isPrefetch /\ ~HasUnexpired(lastCall'.key)) =>
             /\ lastCall'.op = "detailsQueued"
             /\ callOrder' = Append(callOrder, u)
             /\ Len(REQUEST_QUEUE') + Len(started')
                  = Len(REQUEST_QUEUE) + Len(started) + 1
             /\ promise'[u] = Pending
             /\ \A v \in Units \ {u} : promise'[v] = promise[v]
        /\ unhandled' = 0
        /\ \A v \in settling :
             calls[v].caller = "prefetch" =>
               /\ \A w \in Units \ {v} :
                    promise'[w] = promise[w] /\ response'[w] = response[w]
               /\ REQUEST_QUEUE' = REQUEST_QUEUE
               /\ \E l \in loops' : l.unit = v /\ l.pc = "delay"
        /\ \A v \in Units :
             /\ promise'[v].state = "resolved" => response'[v] = "ok"
             /\ promise'[v].state = "rejected" => response'[v] = "fail"]_vars

\* a prefetch failed while a details request was waiting behind it, and that
\* request was then answered
C17_Witness ==
  /\ calls[1].caller = "prefetch"
  /\ arrival[2] = "request"
  /\ calls[2].caller = "details"
  /\ promise[1].state = "rejected"
  /\ promise[2].state = "resolved"
  /\ unhandled = 0

\* C18: batchFetch starts the items in consecutive groups of at most
\* batchSize (12 items by 5: 5, 5 and 2); a group is started only when every
\* fetch of the group before it has settled, well or not, and one more
\* inter-batch delay has been awaited, so at most batchSize fetches are in
\* flight; the delays awaited are one fewer than the groups started, so none
\* follows the last group.
C18_BatchGroupOrdering ==
  LET n == Len(items)
      GroupItems(g) ==
        {k \in 1..n : (g - 1) * batchSize < k /\ k <= g * batchSize}
      running == {k \in 1..n : fetches[k] = "running"}
      begun == {k \in 1..n : fetches[k] # "none"}
  IN /\ \A g \in 1..Len(launched) :
          /\ launched[g] = GroupItems(g)
          /\ launched[g] # {}
          /\ Cardinality(launched[g]) <= batchSize
     /\ begun = UNION {launched[g] : g \in 1..Len(launched)}
     /\ Cardinality(running) <= batchSize
     /\ \A g \in 2..Len(launched) :
          /\ \A j \in launched[g - 1] : fetches[j] \in {"ok", "fail"}
          /\ delays >= g - 1
     /\ Len(launched) > 0 => delays = Len(launched) - 1
     /\ batchPc = "delay" => Len(launched) * batchSize < n
     /\ batchPc = "done" => begun = 1..n

\* twelve items by five were fetched as 5, 5 and 2 with two delays, every
\* fetch of the first group having failed
C18_Witness ==
  /\ batchPc = "done"
  /\ Len(items) = 12
  /\ batchSize = 5
  /\ launched = <<1..5, 6..10, 11..12>>
  /\ delays = 2
  /\ \A k \in 1..12 : fetches[k] = IF k <= 5 THEN "fail" ELSE "ok"

\* C19: batchFetch never rejects; when it returns, the keys of the Map are
\* exactly the items whose fetch succeeded, each with its own result, and
\* every item was fetched, whichever items failed.
C19_BatchFailureIsolation ==
  /\ batchPc # "rejected"
  /\ batchPc = "fetching" =>
       \E k \in 1..Len(items) : fetches[k] = "running"
  /\ DOMAIN resultMap \subseteq {k \in 1..Len(items) : fetches[k] = "ok"}
  /\ batchPc = "done" =>
       /\ \A k \in 1..Len(items) : fetches[k] \in {"ok", "fail"}
       /\ DOMAIN resultMap = {k \in 1..Len(items) : fetches[k] = "ok"}
       /\ \A k \in DOMAIN resultMap : resultMap[k] = <<"result", items[k]>>

\* of twelve items by five the third failed, and the Map holds the other
\* eleven
C19_Witness ==
  /\ batchPc = "done"
  /\ Len(items) = 12
  /\ batchSize = 5
  /\ fetches[3] = "fail"
  /\ DOMAIN resultMap = (1..12) \ {3}

\* C20: when the provider answers a search and no entry's release date,
\* parsed as the code parses it, has a year in 1980..1989 (empty, malformed
\* and missing dates included), searchMoviesBasic returns
\* {movies: [], totalPages: 0, totalResults: 0} and does not throw; and every
\* movie it returns, from the provider or from the cache, has a year in
\* 1980..1989.
C20_SearchWindowFilter ==
  LET entries == searchResponse.results
      ParsedYear(d) == IF timezoneWest /\ d.jan1 THEN d.year - 1 ELSE d.year
      inWindow == {k \in 1..Len(entries) :
                     /\ entries[k].release_date.kind = "iso"
                     /\ ParsedYear(entries[k].release_date) \in 1980..1989}
  IN /\ (lastCall.op = "searchDone" /\ ~lastCall.threw) =>
          /\ ~searchOut.threw
          /\ inWindow = {} => searchOut.value = EmptyPage
     /\ (searchPc = "done" /\ ~searchOut.threw) =>
          \A k \in 1..Len(searchOut.value.movies) :
            /\ ~searchOut.value.movies[k].year.nan
            /\ searchOut.value.movies[k].year.n \in 1980..1989

\* the provider answered with an undated entry and one of 1990, and the
\* empty page was returned
C20_Witness ==
  /\ lastCall.op = "searchDone"
  /\ ~lastCall.threw
  /\ Len(searchResponse.results) = 2
  /\ searchResponse.results[1].release_date = NoDate("empty")
  /\ searchResponse.results[2].release_date = ReleaseDate(1990, FALSE)
  /\ searchOut = Returns(EmptyPage)

\* C21: a fetchMoviesBasic or searchMoviesBasic call that misses the cache
\* issues exactly one HTTP request, in the turn of the call, and leaves the
\* scheduler (queue, flag, loops, promises) untouched whatever the scheduler
\* is doing with details requests; when the listing response arrives,
\* however many movies it holds, no further request is issued and nothing is
\* queued.
C21_ListingOneDirectRequest ==
  [][/\ (lastCall'.op \in {"fetchStart", "searchStart"} /\ ~lastCall'.ret.hit) =>
          /\ SumOver(netRequests', CacheKeys) + searchRequests'
               = SumOver(netRequests, CacheKeys) + searchRequests + 1
          /\ UNCHANGED schedVars
          /\ lastCall'.op = "fetchStart" =>
               inflight'[lastCall'.key] = inflight[lastCall'.key] + 1
          /\ lastCall'.op = "searchStart" => searchPc' = "awaiting"
     /\ lastCall'.op \in {"fetchDone", "searchDone"} =>
          /\ SumOver(netRequests', CacheKeys) + searchRequests'
               = SumOver(netRequests, CacheKeys) + searchRequests
          /\ UNCHANGED schedVars]_vars

\* a discover page was requested while the worker loop was in a pacing delay
\* with a unit waiting in the queue, and the request is out
C21_Witness ==
  /\ lastCall.op = "fetchStart"
  /\ ~lastCall.ret.hit
  /\ inflight[lastCall.key] = 1
  /\ Len(REQUEST_QUEUE) > 0
  /\ \E l \in loops : l.pc = "delay"

\* C23 (as claimed): a getFromCache(key) that finds an expired entry for key,
\* in the in-memory map or in the persistent store, leaves no entry for key
\* in either; and an entry disappears from a tier only by such a read or by
\* clearCache (the map also by a reload of the page).
C23_LazyEviction ==
  [][\A key \in CacheKeys :
       LET expiredInMemory ==
             /\ memoryCache[key].present
             /\ ~(now - memoryCache[key].timestamp < CACHE_TTL)
           memoryHit ==
             /\ memoryCache[key].present
             /\ now - memoryCache[key].timestamp < CACHE_TTL
           expiredInStorage ==
             \/ localStorage[key].kind = "noTimestamp"
             \/ /\ localStorage[key].kind = "json"
                /\ ~(now - localStorage[key].timestamp < CACHE_TTL)
           readOfKey == lastCall'.op = "get" /\ lastCall'.key = key
           found == expiredInMemory \/ (~memoryHit /\ storageAvailable
                                          /\ expiredInStorage)
       IN /\ (readOfKey /\ found) =>
               /\ localStorage'[key].kind = "absent"
               /\ ~memoryCache'[key].present
          /\ (localStorage[key].kind # "absent"
                /\ localStorage'[key].kind = "absent") =>
               \/ lastCall'.op = "clear"
               \/ readOfKey /\ found
          /\ (memoryCache[key].present /\ ~memoryCache'[key].present) =>
               \/ lastCall'.op \in {"clear", "load"}
               \/ readOfKey /\ found]_vars

\* C23 (amended): a getFromCache(key) that reads an expired entry for key
\* from the persistent store removes it from the persistent store and
\* reports absent; the in-memory map is left as it is by such a read, an
\* expired entry in it included; and an entry disappears from the persistent
\* store only by such a read or by clearCache, from the in-memory map only by
\* clearCache or a reload of the page.
C23_LazyEvictionPersistent ==
  [][\A key \in CacheKeys :
       LET memoryHit ==
             /\ memoryCache[key].present
             /\ now - memoryCache[key].timestamp < CACHE_TTL
           expiredInStorage ==
             \/ localStorage[key].kind = "noTimestamp"
             \/ /\ localStorage[key].kind = "json"
                /\ ~(now - localStorage[key].timestamp < CACHE_TTL)
           readOfKey == lastCall'.op = "get" /\ lastCall'.key = key
           found == ~memoryHit /\ storageAvailable /\ expiredInStorage
       IN /\ (readOfKey /\ found) =>
               /\ localStorage'[key].kind = "absent"
               /\ ~lastCall'.ret.hit
               /\ memoryCache'[key] = memoryCache[key]
          /\ (localStorage[key].kind # "absent"
                /\ localStorage'[key].kind = "absent") =>
               \/ lastCall'.op = "clear"
               \/ readOfKey /\ found
          /\ (memoryCache[key].present /\ ~memoryCache'[key].present) =>
               lastCall'.op \in {"clear", "load"}]_vars

\* an entry saved in this session has expired and was read: it is gone from
\* the persistent store and still sits, expired, in the in-memory map
C23_Witness ==
  \E key \in CacheKeys :
    /\ lastCall.op = "get"
    /\ lastCall.key = key
    /\ ~lastCall.ret.hit
    /\ storageAvailable
    /\ lastSaved[key].present
    /\ localStorage[key].kind = "absent"
    /\ memoryCache[key] = lastSaved[key]
    /\ ~(now - memoryCache[key].timestamp < CACHE_TTL)

\* C24: when a discover-page, search-page or details fetch fails, the call
\* ends with the error, no further request is issued or queued for it, and
\* the in-memory map and the persistent store are what they were before.
C24_FailedFetchLeavesCache ==
  [][/\ (lastCall'.op \in {"fetchDone", "searchDone"} /\ lastCall'.threw) =>
          /\ UNCHANGED <<memoryCache, localStorage>>
          /\ ListingRequests' = ListingRequests
          /\ UNCHANGED <<REQUEST_QUEUE, callOrder, started>>
          /\ lastCall'.op = "searchDone" => searchOut' = Throws
     /\ \A u \in Units :
          (response[u] = "none" /\ response'[u] = "fail") =>
            /\ UNCHANGED <<memoryCache, localStorage>>
            /\ ListingRequests' = ListingRequests
            /\ UNCHANGED <<REQUEST_QUEUE, callOrder, started>>
            /\ promise'[u].state = "rejected"
            /\ lastCall'.op = "detailsDone"
            /\ lastCall'.threw]_vars

\* two details requests for movie 1 were issued; the first one's result is
\* cached, the second one has just failed, and the entry is still there
C24_Witness ==
  /\ lastCall.op = "detailsDone"
  /\ lastCall.threw
  /\ response[1] = "ok"
  /\ response[2] = "fail"
  /\ promise[2].state = "rejected"
  /\ memoryCache[DetailsKey(1)].present
  /\ localStorage[DetailsKey(1)].kind = "json"

\* C25: once a prefetch of a movie's details has been launched and its fetch
\* has succeeded, no real request for the same movie made after that launch
\* (be it while the prefetch was queued or in flight, or after it) has issued
\* a request of its own.
C25_PrefetchMakesHit ==
  \A u \in Units, v \in Units :
    ~ /\ calls[u].caller = "prefetch"
      /\ response[u] = "ok"
      /\ v > u
      /\ calls[v].caller = "details"
      /\ calls[v].id = calls[u].id

C28_HeadOfLineBlocking ==
  \A k \in 1..Len(callOrder) :
    LET u == callOrder[k]
    IN (\E j \in 1..Len(started) : started[j] = u) /\ response[u] = "none" =>
         /\ isProcessingQueue
         /\ loops = {[unit |-> u, pc |-> "request"]}
         /\ promise[u].state = "pending"
         /\ \A m \in (k + 1)..Len(callOrder) :
              /\ \A j \in 1..Len(started) : started[j] # callOrder[m]
              /\ \E j \in 1..Len(REQUEST_QUEUE) : REQUEST_QUEUE[j] = callOrder[m]
              /\ promise[callOrder[m]].state = "pending"
              /\ response[callOrder[m]] = "none"

\* the first details request is unanswered and a second one waits behind it,
\* while a discover page requested meanwhile has arrived and is cached
C28_Witness ==
  /\ Len(started) = 1
  /\ response[started[1]] = "none"
  /\ Len(REQUEST_QUEUE) = 1
  /\ promise[2].state = "pending"
  /\ lastCall.op = "fetchDone"
  /\ ~lastCall.threw
  /\ netRequests[lastCall.key] = 1
  /\ memoryCache[lastCall.key].present

\* C22: the store's error is set only by a failed list fetch (first page or
\* load-more, discover or search); no rejection reaches the UI; and a failed
\* enrichment leaves error alone and puts nothing but a movie with its
\* placeholder values into the list.
C22_OnlyListFailuresVisible ==
  [][/\ (error' # error /\ error' # NoError) => storeCall' = "listFailed"
     /\ uiRejections' = 0
     /\ storeCall' \in {"detailsKept", "backgroundSettled"} => error' = error
     /\ storeCall' = "detailsKept" =>
          /\ Len(movies') = Len(movies)
          /\ \A k \in 1..Len(movies) :
               movies'[k] # movies[k] => movies'[k].runtime = ""]_vars

\* the list is loaded, an enrichment of its movie has failed: no error is
\* shown and the movie has no runtime
C22_Witness ==
  /\ storeCall = "detailsKept"
  /\ error = NoError
  /\ Len(movies) = 1
  /\ movies[1].runtime = ""
  /\ ~loadingDetails


\* C26: stale list responses are discarded: a list response that is taken
\* into the store leaves in the movie list only movies fetched for the
\* current (genre, search query), and so does the list once every list
\* fetch in flight has settled.
C26_StaleResponsesDiscarded ==
  /\ storeCall = "listLoaded" =>
       \A k \in 1..Len(movies) :
         movies[k].listing =
           ListingOf(ListRequest(currentGenre, searchQuery, 1))
  /\ listFetches = <<>> =>
       \A k \in 1..Len(movies) :
         movies[k].listing =
           ListingOf(ListRequest(currentGenre, searchQuery, 1))

\* C29: load-more is non-reentrant: at most one append fetch is in flight
\* at any time, loadMore never requests a page beyond totalPages, and no
\* page's movies are in the list more than once.
C29_LoadMoreNonReentrant ==
  [][/\ Cardinality({k \in 1..Len(listFetches') : listFetches'[k].append}) <= 1
     /\ storeCall' = "loadMore" =>
          listFetches'[Len(listFetches')].req.page <= totalPages
     /\ \A j, k \in 1..Len(movies') :
          (j # k) => movies'[j] # movies'[k]]_vars


\* C30: one submission per checkout: submitRentals is called only with a
\* member logged in, and at most one submit_rental RPC is issued for one
\* cart, from the checkout request until handleCheckoutDone clears it.
C30_OneSubmissionPerCheckout ==
  /\ NoMember \notin submittedAs
  /\ rpcCount <= 1

====
